---------------------------- MODULE Spec2Model ----------------------------
(***************************************************************************)
(* A model of jira-sync: the status-transition resolution of the remote    *)
(* client adapter and of the set:status command, the sync orchestrator,    *)
(* the cached connection, the layered configuration and CLI dispatch, the  *)
(* ticket normalizer, the Markdown formatter, the paginated searches, the  *)
(* query commands, the ticket write commands and the saving of the         *)
(* configuration.                                                          *)
(*                                                                         *)
(* Each subsystem has its own variables, initial condition, actions and    *)
(* specification (SpecStatus, SpecSync, SpecClient, SpecCli, SpecNorm,     *)
(* SpecFormat, SpecSearch, SpecQuery, SpecWrite, SpecSave);                *)
(* the variables of the other subsystems stay at their idle values.        *)
(*                                                                         *)
(* Text that the code inspects character by character (transition names,   *)
(* ids, status names) is a sequence of one-character strings; text that    *)
(* the code only copies or compares as a whole is a TLA+ string.           *)
(***************************************************************************)
EXTENDS Integers, Sequences, FiniteSets, TLC

VARIABLES
    transitions,   \* the transitions the remote offers for the ticket
    sent,          \* transition ids sent to the remote by the running command
    statusResult,  \* what the running status-change command did
    remote,        \* the tickets the remote holds, by key
    vault,         \* the ticket files of the vault: path -> content
    syncResult,    \* the SyncResult of the last sync call, until the caller drops it
    connection,    \* lib/jira_client.py's module-level _connection
    jiraClient,    \* a JiraClient instance, once constructed
    clientResult,  \* what the last connection call did, until the caller drops it
    layers,        \* the configuration sources: environment and the three files
    cliResult,     \* what the last Config.load or CLI run did
    rawIssue,      \* a raw issue as the remote returned it
    rawLinks,      \* the raw issue's fields.issuelinks, when it has a value
    ticketResult,  \* what the last normalization of rawIssue gave
    formatResult,  \* what the last call of the formatter was given and returned
    issues,        \* the issues the remote holds, in the order it lists them
    search,        \* the running paginated search: its arguments and loop variables
    savedQueries,  \* the saved JQL queries of the configuration, by name
    queryResult,   \* what the last read:project or read:jql did
    labels,        \* the labels of the ticket on the remote
    labelProcs,    \* the running add:label commands: where each is, what it read
    linkResult,    \* the link request the last link call sent
    configFile,    \* the configuration file Config.save writes
    saveResult     \* what the last Config.save or Config.from_file did

statusVars == <<transitions, sent, statusResult>>
syncVars == <<remote, vault, syncResult>>
clientVars == <<connection, jiraClient, clientResult>>
cliVars == <<layers, cliResult>>
normVars == <<rawIssue, rawLinks, ticketResult>>
formatVars == <<formatResult>>
searchVars == <<issues, search>>
queryVars == <<savedQueries, queryResult>>
writeVars == <<labels, labelProcs, linkResult>>
saveVars == <<configFile, saveResult>>

vars == <<statusVars, syncVars, clientVars, cliVars, normVars, formatVars, searchVars,
          queryVars, writeVars, saveVars>>

\* what the operations of each subsystem leave alone
StatusOthers == <<syncVars, clientVars, cliVars, normVars, formatVars, searchVars, queryVars,
    writeVars, saveVars>>
SyncOthers == <<statusVars, clientVars, cliVars, normVars, formatVars, searchVars, queryVars,
    writeVars, saveVars>>
ClientOthers == <<statusVars, syncVars, cliVars, normVars, formatVars, searchVars, queryVars,
    writeVars, saveVars>>
CliOthers == <<statusVars, syncVars, clientVars, normVars, formatVars, searchVars, queryVars,
    writeVars, saveVars>>
NormOthers == <<statusVars, syncVars, clientVars, cliVars, formatVars, searchVars, queryVars,
    writeVars, saveVars>>
FormatOthers == <<statusVars, syncVars, clientVars, cliVars, normVars, searchVars, queryVars,
    writeVars, saveVars>>
SearchOthers == <<statusVars, syncVars, clientVars, cliVars, normVars, formatVars, queryVars,
    writeVars, saveVars>>
QueryOthers == <<statusVars, syncVars, clientVars, cliVars, normVars, formatVars, searchVars,
    writeVars, saveVars>>
WriteOthers == <<statusVars, syncVars, clientVars, cliVars, normVars, formatVars, searchVars,
    queryVars, saveVars>>
SaveOthers == <<statusVars, syncVars, clientVars, cliVars, normVars, formatVars, searchVars,
    queryVars, writeVars>>

(***************************************************************************)
(* Text helpers                                                            *)
(***************************************************************************)

\* str.lower() on one character of the model's alphabet
LowerChar(c) ==
    CASE c = "A" -> "a"
      [] c = "B" -> "b"
      [] c = "D" -> "d"
      [] c = "E" -> "e"
      [] c = "F" -> "f"
      [] c = "G" -> "g"
      [] c = "H" -> "h"
      [] c = "I" -> "i"
      [] c = "J" -> "j"
      [] c = "M" -> "m"
      [] c = "N" -> "n"
      [] c = "O" -> "o"
      [] c = "P" -> "p"
      [] c = "Q" -> "q"
      [] c = "T" -> "t"
      [] c = "U" -> "u"
      [] c = "V" -> "v"
      [] OTHER -> c

\* str.lower()
Lower(s) == [i \in DOMAIN s |-> LowerChar(s[i])]

\* str.endswith(suffix)
EndsWith(s, suffix) ==
    /\ Len(suffix) <= Len(s)
    /\ SubSeq(s, Len(s) - Len(suffix) + 1, Len(s)) = suffix

(***************************************************************************)
(* Status transitions                                                      *)
(***************************************************************************)

\* longest list of transitions the remote offers
MaxTransitions == 2

TransitionIds == { <<"1">>, <<"2">>, <<"3">> }

TransitionNames ==
    { <<"G","o">>, <<"N","o"," ","g","o">>, <<"U","p">>, <<"v","1">> }

StatusNames == { <<"G","o">>, <<"U","p">> }

\* what a user may type as the target of a status change
Targets ==
    { <<"g","o">>, <<"G","O">>, <<"U","p">>, <<"1">>, <<>>, <<"x">> }

\* a raw transition: {"id", "name", "to": {"name"}}; hasTo is FALSE when the
\* raw transition carries no "to" object
Transition ==
    [id : TransitionIds, name : TransitionNames, hasTo : {TRUE}, to : StatusNames]
    \cup [id : TransitionIds, name : TransitionNames, hasTo : {FALSE}, to : {<<>>}]

\* the remote gives every transition of an issue its own id
DistinctIds(ts) == \A i, j \in DOMAIN ts : i # j => ts[i].id # ts[j].id

RECURSIVE SeqsUpTo(_, _)
SeqsUpTo(S, n) ==
    IF n = 0 THEN { <<>> }
    ELSE LET shorter == SeqsUpTo(S, n - 1)
         IN  shorter \cup { Append(q, x) : q \in { r \in shorter : Len(r) = n - 1 }, x \in S }

TransitionLists == { ts \in SeqsUpTo(Transition, MaxTransitions) : DistinctIds(ts) }

\* transition_id = None
NoTransition == <<>>

\* t.get("to", {}).get("name", "").lower()
ToNameOrEmpty(t) == IF t.hasTo THEN Lower(t.to) ELSE <<>>

\* the three tests of the loop body of update_status, in the code's order
NameHit(t, status) == Lower(t.name) = Lower(status)
IdHit(t, status) == t.id = status
NameOrIdHit(t, status) == NameHit(t, status) \/ IdHit(t, status)
ToHit(t, status) == ToNameOrEmpty(t) = Lower(status)
SuffixHit(t, status) ==
    \/ EndsWith(Lower(t.name), Lower(status))
    \/ EndsWith(Lower(t.name), <<"t","o"," ">> \o Lower(status))

\* the for loop of update_status from position i: the id of the first
\* transition that passes any of the three tests, else None
RECURSIVE FindTransition(_, _, _)
FindTransition(ts, status, i) ==
    IF i > Len(ts) THEN NoTransition
    ELSE IF NameOrIdHit(ts[i], status) THEN ts[i].id
    ELSE IF ToHit(ts[i], status) THEN ts[i].id
    ELSE IF SuffixHit(ts[i], status) THEN ts[i].id
    ELSE FindTransition(ts, status, i + 1)

\* [t["id"] for t in transitions]: the options listed by ids instead of names
TransitionIdsOf(ts) == [i \in DOMAIN ts |-> ts[i].id]

\* [t["name"] for t in transitions]
TransitionNamesOf(ts) == [i \in DOMAIN ts |-> ts[i].name]

\* the generator inside next(...) of handle_set_status from position i:
\* t["to"]["name"] raises KeyError on a transition without "to"
RECURSIVE FindByToStatus(_, _, _)
FindByToStatus(ts, status, i) ==
    IF i > Len(ts) THEN [kind |-> "none", id |-> NoTransition]
    ELSE IF ~ts[i].hasTo THEN [kind |-> "KeyError", id |-> NoTransition]
    ELSE IF Lower(ts[i].to) = Lower(status) THEN [kind |-> "found", id |-> ts[i].id]
    ELSE FindByToStatus(ts, status, i + 1)

\* [t["to"]["name"] for t in transitions]
ToStatusNamesOf(ts) == [i \in DOMAIN ts |-> ts[i].to]

StatusIdle ==
    [op |-> "idle", status |-> <<>>, raised |-> "none", options |-> <<>>]

\* JiraClient.update_status(ticket_key, status)
UpdateStatus(status) ==
    /\ statusResult.op = "idle"
    /\ LET transition_id == FindTransition(transitions, status, 1)
       IN  IF transition_id = NoTransition
           THEN /\ statusResult' = [op |-> "update_status", status |-> status,
                                    raised |-> "ValueError",
                                    options |-> TransitionNamesOf(transitions)]
                /\ sent' = sent
           ELSE /\ statusResult' = [op |-> "update_status", status |-> status,
                                    raised |-> "none", options |-> <<>>]
                /\ sent' = Append(sent, transition_id)
    /\ UNCHANGED <<transitions, StatusOthers>>

\* handle_set_status(config, args), the set:status command
HandleSetStatus(status) ==
    /\ statusResult.op = "idle"
    /\ LET target == FindByToStatus(transitions, status, 1)
       IN  CASE target.kind = "KeyError" ->
                  /\ statusResult' = [op |-> "set:status", status |-> status,
                                      raised |-> "KeyError", options |-> <<>>]
                  /\ sent' = sent
             [] target.kind = "none" ->
                  /\ statusResult' = [op |-> "set:status", status |-> status,
                                      raised |-> "ValueError",
                                      options |-> ToStatusNamesOf(transitions)]
                  /\ sent' = sent
             [] OTHER ->
                  /\ statusResult' = [op |-> "set:status", status |-> status,
                                      raised |-> "none", options |-> <<>>]
                  /\ sent' = Append(sent, target.id)
    /\ UNCHANGED <<transitions, StatusOthers>>

\* the command's process ends; the next invocation starts afresh
StatusExit ==
    /\ statusResult.op # "idle"
    /\ statusResult' = StatusIdle
    /\ sent' = <<>>
    /\ UNCHANGED <<transitions, StatusOthers>>

(***************************************************************************)
(* Claims about status transitions                                         *)
(***************************************************************************)

UpdateStatusDone == statusResult.op = "update_status"
SetStatusDone == statusResult.op = "set:status"

\* the transition whose id was sent, when exactly one request was sent
SentTransition(P(_, _)) ==
    /\ Len(sent) = 1
    /\ \E i \in DOMAIN transitions :
          /\ transitions[i].id = sent[1]
          /\ P(transitions[i], statusResult.status)

Some(P(_, _)) == \E i \in DOMAIN transitions : P(transitions[i], statusResult.status)

\* every transition carries a target status and the target is not empty
OrdinaryCall ==
    /\ statusResult.status # <<>>
    /\ \A i \in DOMAIN transitions : transitions[i].hasTo

\* C1: update_status resolves by criterion priority, not list position: when
\* some transition matches by name the one sent matches by name; otherwise
\* when some matches by id the one sent matches by id; otherwise a
\* target-status match is preferred to a suffix match (stated for non-empty
\* targets and transitions that all carry a target status).
C1_PriorityNotPosition ==
    (UpdateStatusDone /\ OrdinaryCall) =>
        /\ Some(NameHit) => SentTransition(NameHit)
        /\ (~Some(NameHit) /\ Some(IdHit)) => SentTransition(IdHit)
        /\ (~Some(NameHit) /\ ~Some(IdHit) /\ Some(ToHit)) => SentTransition(ToHit)

\* the names, and the target statuses, of the available transitions in order
NamesInOrder == [i \in DOMAIN transitions |-> transitions[i].name]
TargetStatusesInOrder == [i \in DOMAIN transitions |-> transitions[i].to]

\* no transition matches the target under any of the four criteria
NoMatchAtAll == ~Some(NameHit) /\ ~Some(IdHit) /\ ~Some(ToHit) /\ ~Some(SuffixHit)

\* the one criterion of handle_set_status: the target status, ignoring case
ToStatusIs(t, status) == t.hasTo /\ Lower(t.to) = Lower(status)

\* C2 as stated: on both status-change paths an unmatched target fails with
\* an error listing the names of all available transitions in order, and no
\* transition request is sent (stated for non-empty targets and transitions
\* that all carry a target status).
C2_ErrorListsTransitionNames ==
    ((UpdateStatusDone \/ SetStatusDone) /\ OrdinaryCall /\ NoMatchAtAll) =>
        /\ statusResult.raised = "ValueError"
        /\ statusResult.options = NamesInOrder
        /\ sent = <<>>

\* C2 amended: update_status lists the transition names; handle_set_status,
\* when no target status equals the target, lists the target-status names
\* (and fails with a KeyError when a transition carries no target status);
\* neither sends a transition request.
C2_ErrorListsOptionsPerPath ==
    /\ (UpdateStatusDone /\ NoMatchAtAll) =>
          /\ statusResult.raised = "ValueError"
          /\ statusResult.options = NamesInOrder
          /\ sent = <<>>
    /\ (SetStatusDone /\ ~Some(ToStatusIs)) =>
          /\ sent = <<>>
          /\ IF \A i \in DOMAIN transitions : transitions[i].hasTo
             THEN /\ statusResult.raised = "ValueError"
                  /\ statusResult.options = TargetStatusesInOrder
             ELSE statusResult.raised = "KeyError"

\* set:status was refused with two options on offer whose transition names
\* differ from their target-status names
C2_Witness ==
    /\ SetStatusDone
    /\ statusResult.raised = "ValueError"
    /\ Len(transitions) = 2
    /\ statusResult.options # NamesInOrder

\* C3: when exactly one transition has the requested target status (ignoring
\* case) and none matches by name or id, both paths send exactly one
\* request, carrying that transition's id (stated for non-empty targets and
\* transitions that all carry a target status).
C3_TargetStatusSelected ==
    ( /\ UpdateStatusDone \/ SetStatusDone
      /\ OrdinaryCall
      /\ Cardinality({ i \in DOMAIN transitions :
                          ToStatusIs(transitions[i], statusResult.status) }) = 1
      /\ ~Some(NameHit)
      /\ ~Some(IdHit) )
    => /\ statusResult.raised = "none"
       /\ SentTransition(ToStatusIs)

\* C25: update_status called with an empty target, when the list of
\* transitions is not empty and every transition has a non-empty name, id
\* and target status, raises the 'not available' error listing the
\* transition names and sends no transition request.
C25_EmptyTargetRefused ==
    ( /\ UpdateStatusDone
      /\ statusResult.status = <<>>
      /\ transitions # <<>>
      /\ \A i \in DOMAIN transitions :
            /\ transitions[i].hasTo
            /\ transitions[i].name # <<>>
            /\ transitions[i].id # <<>>
            /\ transitions[i].to # <<>> )
    => /\ statusResult.raised = "ValueError"
       /\ statusResult.options = NamesInOrder
       /\ sent = <<>>

(***************************************************************************)
(* Sync orchestrator                                                       *)
(***************************************************************************)

\* longest list of keys given to one batch sync
MaxBatch == 3

GoodKeys == { "A-1", "A-2" }
Keys == GoodKeys \cup { "BAD-1" }

\* the remote has no ticket under this key: the fetch fails
Missing == [exists |-> FALSE]

\* the canonical tickets the remote may hold under a key
TicketsOf(key) ==
    IF key = "A-1"
    THEN [exists : {TRUE}, key : {key}, summary : { <<"F","i","x">> },
          status : {"Open", "Done"}, issue_type : { <<"T","a","s","k">> },
          parent_summary : { <<>> }, epic_name : { <<>> }]
    ELSE IF key = "A-2"
    THEN [exists : {TRUE}, key : {key}, summary : { <<"A","d","d">> },
          status : {"Open"}, issue_type : { <<"B","u","g">> },
          parent_summary : { <<>> }, epic_name : { <<>> }]
    ELSE { Missing }

\* a category given by the caller, or None (a value that is no text)
NoCategory == <<"None">>
Categories == { NoCategory, <<"I","n","b","o","x">> }

FilenameMaxLength == 50
CategoryMaxLength == 30

UnsafeChars == { "/", ":", "?", "*" }

RECURSIVE DropUnsafe(_)
DropUnsafe(s) ==
    IF s = <<>> THEN <<>>
    ELSE IF Head(s) \in UnsafeChars THEN DropUnsafe(Tail(s))
    ELSE <<Head(s)>> \o DropUnsafe(Tail(s))

\* runs of blanks become one blank, leading and trailing blanks go
RECURSIVE CollapseBlanks(_, _)
CollapseBlanks(s, afterBlank) ==
    IF s = <<>> THEN <<>>
    ELSE IF Head(s) = " "
         THEN IF afterBlank \/ \A i \in DOMAIN s : s[i] = " "
              THEN CollapseBlanks(Tail(s), TRUE)
              ELSE <<" ">> \o CollapseBlanks(Tail(s), TRUE)
         ELSE <<Head(s)>> \o CollapseBlanks(Tail(s), FALSE)

Truncate(s, n) == IF Len(s) <= n THEN s ELSE SubSeq(s, 1, n)

\* sanitize_name(name, max_length, lowercase)
SanitizeName(name, max_length, lowercase) ==
    LET clean == CollapseBlanks(DropUnsafe(name), TRUE)
        cased == IF lowercase THEN Lower(clean) ELSE clean
    IN  Truncate(cased, max_length)

\* a detection that prefers the issue type to the parent and the epic
DetectCategoryTypeFirst(ticket) ==
    IF ticket.issue_type # <<>>
    THEN [derived |-> "type", name |-> ticket.issue_type]
    ELSE IF ticket.parent_summary # <<>>
    THEN [derived |-> "parent", name |-> SanitizeName(ticket.parent_summary, CategoryMaxLength, FALSE)]
    ELSE [derived |-> "default", name |-> <<"G","e","n","e","r","a","l">>]

\* TicketFormatter._detect_category; a category is a folder name
DetectCategory(ticket) ==
    IF ticket.parent_summary # <<>>
    THEN [derived |-> "parent", name |-> SanitizeName(ticket.parent_summary, CategoryMaxLength, FALSE)]
    ELSE IF ticket.epic_name # <<>>
    THEN [derived |-> "epic", name |-> SanitizeName(ticket.epic_name, CategoryMaxLength, FALSE)]
    ELSE IF ticket.issue_type # <<>>
    THEN [derived |-> "type", name |-> ticket.issue_type]
    ELSE [derived |-> "default", name |-> <<"G","e","n","e","r","a","l">>]

\* a file name "{key}-{slug}.md" (dash) or "{key}.md"
FileName(key, dash, slug) == [key |-> key, dash |-> dash, slug |-> slug]

\* a file name that also carries the status
GenerateFilenameWithStatus(ticket) ==
    FileName(ticket.key, TRUE, SanitizeName(ticket.summary \o ticket.status, FilenameMaxLength, TRUE))

\* TicketFormatter._generate_filename: "{key}-{safe_summary}.md" or "{key}.md"
GenerateFilename(ticket) ==
    IF ticket.summary # <<>>
    THEN FileName(ticket.key, TRUE, SanitizeName(ticket.summary, FilenameMaxLength, TRUE))
    ELSE FileName(ticket.key, FALSE, <<>>)

\* TicketFormatter._build_markdown, as far as the orchestrator sees it: the
\* text is decided by the ticket
BuildMarkdown(ticket) == [of |-> ticket.key, summary |-> ticket.summary, status |-> ticket.status]

\* TicketFormatter.format_ticket(ticket, category)
FormatTicket(ticket, category) ==
    [filename |-> GenerateFilename(ticket),
     content |-> BuildMarkdown(ticket),
     category |-> IF category = NoCategory
                  THEN DetectCategory(ticket)
                  ELSE [derived |-> "given", name |-> category]]

\* tickets_path / category / filename
TargetPath(formatted) == [category |-> formatted.category.name, filename |-> formatted.filename]

\* the vault v with content written at path p
WriteFile(v, p, content) ==
    [q \in DOMAIN v \cup {p} |-> IF q = p THEN content ELSE v[q]]

EmptyResult ==
    [success |-> TRUE, tickets_synced |-> 0, files_created |-> <<>>,
     files_updated |-> <<>>, errors |-> <<>>]

\* a failure swallowed without a record of it
FailedSyncSilent(v, key) == [vault |-> v, result |-> EmptyResult]

\* the except branch of sync_single_ticket: nothing written, one error
FailedSync(v, key) ==
    [vault |-> v,
     result |-> [EmptyResult EXCEPT !.success = FALSE, !.errors = <<key>>]]

\* a sync that compares content first and reports an unchanged file as neither
\* created nor updated
SyncSingleTicketDiffing(v, key, category, force, writeFails) ==
    LET ticket == remote[key]
    IN  IF ~ticket.exists \/ key \in writeFails THEN FailedSync(v, key)
        ELSE LET formatted == FormatTicket(ticket, category)
                 path == TargetPath(formatted)
             IN  [vault |-> WriteFile(v, path, formatted.content),
                  result |->
                    IF path \notin DOMAIN v
                    THEN [EmptyResult EXCEPT !.tickets_synced = 1, !.files_created = <<path>>]
                    ELSE IF v[path] = formatted.content /\ ~force
                    THEN [EmptyResult EXCEPT !.tickets_synced = 1]
                    ELSE [EmptyResult EXCEPT !.tickets_synced = 1, !.files_updated = <<path>>]]

\* sync_single_ticket(client, formatter, config, ticket_key, category, force):
\* fetch, render, write; success reports the file as created or updated by
\* whether it existed, failure reports one error and writes nothing.
\* writeFails holds the keys whose file cannot be written.
SyncSingleTicket(v, key, category, force, writeFails) ==
    LET ticket == remote[key]
        failed == FailedSync(v, key)
    IN  IF ~ticket.exists THEN failed
        ELSE LET formatted == FormatTicket(ticket, category)
                 path == TargetPath(formatted)
             IN  IF key \in writeFails THEN failed
                 ELSE [vault |-> WriteFile(v, path, formatted.content),
                       result |->
                         IF path \in DOMAIN v
                         THEN [EmptyResult EXCEPT !.tickets_synced = 1, !.files_updated = <<path>>]
                         ELSE [EmptyResult EXCEPT !.tickets_synced = 1, !.files_created = <<path>>]]

\* the results of two syncs, added up
Aggregate(a, b) ==
    [success |-> (a.errors \o b.errors) = <<>>,
     tickets_synced |-> a.tickets_synced + b.tickets_synced,
     files_created |-> a.files_created \o b.files_created,
     files_updated |-> a.files_updated \o b.files_updated,
     errors |-> a.errors \o b.errors]

\* sync_multiple_tickets(client, formatter, config, ticket_keys, category):
\* every key in turn, from position i, with the vault v and the result so far
RECURSIVE SyncMultipleTickets(_, _, _, _, _, _)
SyncMultipleTickets(v, keys, category, writeFails, i, acc) ==
    IF i > Len(keys) THEN [vault |-> v, result |-> acc]
    ELSE LET one == SyncSingleTicket(v, keys[i], category, FALSE, writeFails)
         IN  SyncMultipleTickets(one.vault, keys, category, writeFails, i + 1,
                                 Aggregate(acc, one.result))

SyncIdle == [op |-> "idle"]

\* JiraSync.sync_ticket(ticket_key, category, force)
SyncTicket ==
    /\ syncResult = SyncIdle
    /\ \E key \in Keys, category \in Categories, force \in BOOLEAN,
          writeFails \in SUBSET GoodKeys :
          LET done == SyncSingleTicket(vault, key, category, force, writeFails)
          IN  /\ vault' = done.vault
              /\ syncResult' = [op |-> "sync_ticket", keys |-> <<key>>,
                                category |-> category, writeFails |-> writeFails,
                                result |-> done.result]
    /\ UNCHANGED <<remote, SyncOthers>>

\* the lists of keys given to a batch sync
KeyLists == SeqsUpTo(Keys, MaxBatch)

\* JiraSync.sync_tickets(ticket_keys, category)
SyncTickets ==
    /\ syncResult = SyncIdle
    /\ \E keys \in KeyLists, category \in Categories,
          writeFails \in SUBSET GoodKeys :
          LET done == SyncMultipleTickets(vault, keys, category, writeFails, 1, EmptyResult)
          IN  /\ vault' = done.vault
              /\ syncResult' = [op |-> "sync_tickets", keys |-> keys,
                                category |-> category, writeFails |-> writeFails,
                                result |-> done.result]
    /\ UNCHANGED <<remote, SyncOthers>>

\* the caller is done with the SyncResult
DropResult ==
    /\ syncResult # SyncIdle
    /\ syncResult' = SyncIdle
    /\ UNCHANGED <<remote, vault, SyncOthers>>

\* somebody edits a ticket on the remote
RemoteEdit(key) ==
    /\ \E t \in TicketsOf(key) : t # remote[key] /\ remote' = [remote EXCEPT ![key] = t]
    /\ UNCHANGED <<vault, syncResult, SyncOthers>>


(***************************************************************************)
(* Claims about the sync orchestrator                                      *)
(***************************************************************************)

\* the step is a call of the named sync operation
SyncCall(op) == syncResult = SyncIdle /\ syncResult'.op = op

\* whether the sync of this key of the call fails: no such ticket to fetch, or
\* its file cannot be written
KeyFails(call, key) == ~remote[key].exists \/ key \in call.writeFails

\* where the call puts the file of a key
PathOf(call, key) == TargetPath(FormatTicket(remote[key], call.category))

\* C4: a batch sync processes every key: each failing key adds one entry to
\* errors and blocks no other key (every other key's file is in the vault with
\* the ticket's current text), tickets_synced is the number of keys that
\* succeeded, and success is true exactly when errors is empty.
C4_BatchProcessesEveryKey ==
    [][SyncCall("sync_tickets") =>
        LET call == syncResult'
            keys == call.keys
            bad == { i \in DOMAIN keys : KeyFails(call, keys[i]) }
            good == DOMAIN keys \ bad
        IN  /\ Len(call.result.errors) = Cardinality(bad)
            /\ call.result.tickets_synced = Cardinality(good)
            /\ call.result.success <=> (call.result.errors = <<>>)
            /\ Len(call.result.files_created) + Len(call.result.files_updated)
                   = Cardinality(good)
            /\ \A i \in good :
                  /\ PathOf(call, keys[i]) \in DOMAIN vault'
                  /\ vault'[PathOf(call, keys[i])] = BuildMarkdown(remote[keys[i]])
    ]_vars

\* the batch [A-1, A-2, BAD-1] ended with 2 synced, 1 error, success = false
C4_Witness ==
    /\ syncResult.op = "sync_tickets"
    /\ syncResult.keys = <<"A-1", "A-2", "BAD-1">>
    /\ syncResult.writeFails = {}
    /\ syncResult.result.tickets_synced = 2
    /\ Len(syncResult.result.errors) = 1
    /\ ~syncResult.result.success

FilesOfKey(key) == { path \in DOMAIN vault : path.filename.key = key }

\* C28: after any sequence of syncs the tickets folder holds at most one
\* file per ticket key, also when the summary or the derived or overridden
\* category of the ticket changed between two syncs of the key.
C28_OneFilePerKey ==
    \A key \in Keys : Cardinality(FilesOfKey(key)) <= 1

(***************************************************************************)
(* Credentials and the cached connection                                   *)
(***************************************************************************)

Urls == { "", "https://a.example", "https://b.example" }
Emails == { "", "ann@example", "bob@example" }
Tokens == { "", "token-1", "token-2" }

\* the credentials of a Config
Credentials == [jira_url : Urls, jira_email : Emails, jira_api_token : Tokens]

\* a validation that forgets the API token
ValidateWithoutToken(config) ==
    (IF config.jira_url = "" THEN <<"JIRA_URL is required">> ELSE <<>>)
    \o (IF config.jira_email = "" THEN <<"JIRA_EMAIL is required">> ELSE <<>>)

\* Config.validate(): the list of errors
Validate(config) ==
    (IF config.jira_url = "" THEN <<"JIRA_URL is required">> ELSE <<>>)
    \o (IF config.jira_email = "" THEN <<"JIRA_EMAIL is required">> ELSE <<>>)
    \o (IF config.jira_api_token = "" THEN <<"JIRA_API_TOKEN is required">> ELSE <<>>)

\* JIRA(server=..., basic_auth=(email, token)): constructing it contacts the server
Jira(config) ==
    [server |-> config.jira_url, email |-> config.jira_email, token |-> config.jira_api_token]

\* _connection = None
NoConnection == [open |-> FALSE]

\* JiraConnection(client, base_url, email)
JiraConnection(config) ==
    [open |-> TRUE, client |-> Jira(config), base_url |-> config.jira_url,
     email |-> config.jira_email]

\* no JiraClient instance, and JiraClient._client = None
NoJiraClient == [made |-> FALSE]
NoJira == [server |-> "", email |-> "", token |-> ""]

ClientIdle == [op |-> "idle"]

\* get_client(config)
GetClient(config) ==
    /\ clientResult = ClientIdle
    /\ IF Validate(config) # <<>>
       THEN /\ clientResult' = [op |-> "get_client", config |-> config,
                                raised |-> "ValueError", constructed |-> FALSE,
                                returned |-> NoConnection]
            /\ UNCHANGED connection
       ELSE IF ~connection.open \/ connection.base_url # config.jira_url
       THEN /\ connection' = JiraConnection(config)
            /\ clientResult' = [op |-> "get_client", config |-> config,
                                raised |-> "none", constructed |-> TRUE,
                                returned |-> JiraConnection(config)]
       ELSE /\ clientResult' = [op |-> "get_client", config |-> config,
                                raised |-> "none", constructed |-> FALSE,
                                returned |-> connection]
            /\ UNCHANGED connection
    /\ UNCHANGED <<jiraClient, ClientOthers>>

\* reset_connection()
ResetConnection ==
    /\ connection' = NoConnection
    /\ UNCHANGED <<jiraClient, clientResult, ClientOthers>>

\* JiraClient(config): __init__ with _validate_config
NewJiraClient(config) ==
    /\ clientResult = ClientIdle
    /\ IF Validate(config) # <<>>
       THEN /\ clientResult' = [op |-> "JiraClient", config |-> config,
                                raised |-> "ValueError", constructed |-> FALSE,
                                returned |-> NoConnection]
            /\ UNCHANGED jiraClient
       ELSE /\ clientResult' = [op |-> "JiraClient", config |-> config,
                                raised |-> "none", constructed |-> FALSE,
                                returned |-> NoConnection]
            /\ jiraClient' = [made |-> TRUE, config |-> config, client |-> NoJira]
    /\ UNCHANGED <<connection, ClientOthers>>

\* JiraClient.connect(), also behind the client property
Connect ==
    /\ clientResult = ClientIdle
    /\ jiraClient.made
    /\ IF jiraClient.client = NoJira
       THEN /\ jiraClient' = [jiraClient EXCEPT !.client = Jira(jiraClient.config)]
            /\ clientResult' = [op |-> "connect", config |-> jiraClient.config,
                                raised |-> "none", constructed |-> TRUE,
                                returned |-> NoConnection]
       ELSE /\ clientResult' = [op |-> "connect", config |-> jiraClient.config,
                                raised |-> "none", constructed |-> FALSE,
                                returned |-> NoConnection]
            /\ UNCHANGED jiraClient
    /\ UNCHANGED <<connection, ClientOthers>>

\* the caller is done with the outcome of the call
ClientReturn ==
    /\ clientResult # ClientIdle
    /\ clientResult' = ClientIdle
    /\ UNCHANGED <<connection, jiraClient, ClientOthers>>

(***************************************************************************)
(* Claims about credentials                                                *)
(***************************************************************************)

\* at least one of the three credentials is empty
MissingCredential(config) ==
    config.jira_url = "" \/ config.jira_email = "" \/ config.jira_api_token = ""

\* C6: for every Config with an empty jira_url, jira_email or jira_api_token,
\* get_client and JiraClient construction raise a configuration error,
\* construct no JIRA connection and leave the cached connection and any
\* JiraClient as they were, also when a cached connection exists.
C6_CredentialsCheckedFirst ==
    [][( /\ clientResult = ClientIdle
         /\ clientResult'.op \in {"get_client", "JiraClient"}
         /\ MissingCredential(clientResult'.config) )
       => /\ clientResult'.raised = "ValueError"
          /\ ~clientResult'.constructed
          /\ connection' = connection
          /\ jiraClient' = jiraClient
    ]_vars

\* get_client refused a config without a token while a connection was cached
C6_Witness ==
    /\ connection.open
    /\ clientResult.op = "get_client"
    /\ clientResult.config.jira_url = connection.base_url
    /\ clientResult.config.jira_api_token = ""
    /\ clientResult.raised = "ValueError"

\* C19: the cached connection is behaviour-neutral: the connection returned
\* by each successful get_client call equals one freshly constructed from
\* that call's config (its server URL, authenticated with its email and API
\* token), also when consecutive configs share the URL but differ in email
\* or token.
C19_CachedConnectionNeutral ==
    (clientResult.op = "get_client" /\ clientResult.raised = "none") =>
        clientResult.returned = JiraConnection(clientResult.config)

(***************************************************************************)
(* Layered configuration and CLI dispatch                                  *)
(***************************************************************************)

Settings == { "jira_url", "jira_email", "jira_api_token" }

\* Config(): the built-in defaults of the three credentials
DefaultConfig == [s \in Settings |-> ""]

\* what a source may hold for a setting: nothing, or a value of its own
ValuesOf(source) == [Settings -> { "", source }]

\* a config file: missing, not parseable as JSON, or a JSON object
FileStates == { "missing", "invalid", "ok" }
ConfigFiles(source) ==
    { [state |-> "missing", data |-> DefaultConfig],
      [state |-> "invalid", data |-> DefaultConfig] }
    \cup [state : {"ok"}, data : ValuesOf(source)]

Exists(file) == file.state # "missing"

\* Config.from_file(path) on an existing file: cls(**data)
FromFile(file) ==
    IF file.state = "invalid"
    THEN [raised |-> TRUE, config |-> DefaultConfig]
    ELSE [raised |-> FALSE, config |-> file.data]

\* environment overrides that leave the API token alone
ApplyEnvOverridesNoToken(config, env) ==
    [s \in Settings |-> IF env[s] # "" /\ s # "jira_api_token" THEN env[s] ELSE config[s]]

\* Config._apply_env_overrides()
ApplyEnvOverrides(config, env) ==
    [s \in Settings |-> IF env[s] # "" THEN env[s] ELSE config[s]]

\* Config._apply_file_overrides(path): jira_api_token is not among the
\* settings it copies
ApplyFileOverrides(config, file) ==
    IF file.state = "invalid"
    THEN [raised |-> TRUE, config |-> config]
    ELSE [raised |-> FALSE,
          config |-> [s \in Settings |->
                        IF s \in {"jira_url", "jira_email"} /\ file.data[s] # ""
                        THEN file.data[s] ELSE config[s]]]

\* Config.load(config_path); given says whether a config_path was passed
ConfigLoad(given, l) ==
    IF given /\ Exists(l.explicit)
    THEN LET f == FromFile(l.explicit)
         IN  IF f.raised THEN f
             ELSE [raised |-> FALSE, config |-> ApplyEnvOverrides(f.config, l.env)]
    ELSE LET home == IF Exists(l.user)
                     THEN FromFile(l.user)
                     ELSE [raised |-> FALSE, config |-> DefaultConfig]
             cwd == IF home.raised THEN home
                    ELSE IF Exists(l.project)
                    THEN ApplyFileOverrides(home.config, l.project)
                    ELSE home
         IN  IF cwd.raised THEN cwd
             ELSE [raised |-> FALSE, config |-> ApplyEnvOverrides(cwd.config, l.env)]

Commands == { "init", "test", "read:ticket" }

\* how the remote answers during one run
RemoteAnswers == { "ok", "network failure", "authentication rejected", "ticket not found" }

\* get_client(config) in a fresh process, then one remote call: the failure
\* met, if any, and whether the network was used
RemoteCall(config, answer, needsTicket) ==
    IF Validate(config) # <<>>
    THEN [failure |-> "missing credentials", network |-> FALSE]
    ELSE IF answer \in {"network failure", "authentication rejected"}
    THEN [failure |-> answer, network |-> TRUE]
    ELSE IF needsTicket /\ answer = "ticket not found"
    THEN [failure |-> answer, network |-> TRUE]
    ELSE [failure |-> "none", network |-> TRUE]

\* handle_test(config, args): every exception is caught and printed as JSON
HandleTest(config, answer) ==
    LET call == RemoteCall(config, answer, FALSE)
    IN  [raised |-> FALSE, failure |-> call.failure, network |-> call.network]

\* handle_read_ticket(config, args): fetch_ticket lets exceptions through
HandleReadTicket(config, answer) ==
    LET call == RemoteCall(config, answer, TRUE)
    IN  [raised |-> call.failure # "none", failure |-> call.failure, network |-> call.network]

\* handle_init(args): writes its templates; fsFails is a failing mkdir or write
HandleInit(fsFails) ==
    [raised |-> fsFails, failure |-> IF fsFails THEN "filesystem" ELSE "none",
     network |-> FALSE]

CliRun(op, cmd, given, answer, load, handler, exit) ==
    [op |-> op, cmd |-> cmd, given |-> given, answer |-> answer,
     loadRaised |-> load.raised, config |-> load.config,
     raised |-> handler.raised, failure |-> handler.failure,
     network |-> handler.network, exit |-> exit]

NotLoaded == [raised |-> FALSE, config |-> DefaultConfig]
NotRun == [raised |-> FALSE, failure |-> "none", network |-> FALSE]

CliIdle == CliRun("idle", "none", FALSE, "ok", NotLoaded, NotRun, 0)

\* Config.load(config_path) called on its own
LoadConfig(given) ==
    /\ cliResult = CliIdle
    /\ cliResult' = CliRun("load", "none", given, "ok", ConfigLoad(given, layers), NotRun, 0)
    /\ UNCHANGED <<layers, CliOthers>>

\* main() of jira_sync/cli.py for a registered command; given is --config
Main(cmd, given, answer, fsFails) ==
    /\ cliResult = CliIdle
    /\ IF cmd = "init"
       THEN LET h == HandleInit(fsFails)
            IN  cliResult' = CliRun("main", cmd, given, answer, NotLoaded, h,
                                    IF h.raised THEN 1 ELSE 0)
       ELSE LET load == ConfigLoad(given, layers)
            IN  IF load.raised
                THEN cliResult' = CliRun("main", cmd, given, answer, load, NotRun, 1)
                ELSE LET h == IF cmd = "test"
                              THEN HandleTest(load.config, answer)
                              ELSE HandleReadTicket(load.config, answer)
                     IN  cliResult' = CliRun("main", cmd, given, answer, load, h,
                                             IF h.raised THEN 1 ELSE 0)
    /\ UNCHANGED <<layers, CliOthers>>

\* main() of cli.py: its handlers and load_config are imported from the
\* commands package, so each either raises or returns; an exception of a
\* no_config handler is not caught and ends the interpreter with status 1
MainLegacy(cmd, loadRaises, handlerRaises) ==
    /\ cliResult = CliIdle
    /\ LET h == [raised |-> handlerRaises,
                 failure |-> IF handlerRaises THEN "exception" ELSE "none",
                 network |-> FALSE]
       IN  IF cmd = "init"
           THEN cliResult' = CliRun("legacy main", cmd, FALSE, "ok", NotLoaded, h,
                                    IF handlerRaises THEN 1 ELSE 0)
           ELSE IF loadRaises
           THEN cliResult' = CliRun("legacy main", cmd, FALSE, "ok",
                                    [raised |-> TRUE, config |-> DefaultConfig], NotRun, 1)
           ELSE cliResult' = CliRun("legacy main", cmd, FALSE, "ok", NotLoaded, h,
                                    IF handlerRaises THEN 1 ELSE 0)
    /\ UNCHANGED <<layers, CliOthers>>

\* the process ends
CliExit ==
    /\ cliResult # CliIdle
    /\ cliResult' = CliIdle
    /\ UNCHANGED <<layers, CliOthers>>

NoLayers ==
    [env |-> DefaultConfig,
     explicit |-> [state |-> "missing", data |-> DefaultConfig],
     project |-> [state |-> "missing", data |-> DefaultConfig],
     user |-> [state |-> "missing", data |-> DefaultConfig]]

(***************************************************************************)
(* Claims about configuration and the CLI                                  *)
(***************************************************************************)

\* Config.load returned a configuration
Loaded == cliResult.op = "load" /\ ~cliResult.loadRaised

\* the file is there, parses, and gives the setting a value
Defines(file, s) == file.state = "ok" /\ file.data[s] # ""

C8_MissingConfigFileIsFatal ==
    (cliResult.given /\ layers.explicit.state = "missing") =>
        /\ cliResult.op = "load" => cliResult.loadRaised
        /\ (cliResult.op = "main" /\ cliResult.cmd # "init") =>
              cliResult.exit # 0 /\ ~cliResult.network

\* C9: a run whose handler raised, or in which a remote call failed, ends
\* with a non-zero exit code, for every command.
C9_FailureExitsNonZero ==
    ( /\ cliResult.op \in {"main", "legacy main"}
      /\ cliResult.raised \/ cliResult.failure \in RemoteAnswers \ {"ok"} )
    => cliResult.exit # 0

(***************************************************************************)
(* Ticket normalizer                                                       *)
(***************************************************************************)

\* most optional fields a raw issue lacks at once
MaxMissing == 2

\* the optional fields of issue.fields that the normalizer reads
NestedFields == { "status", "priority", "issuetype", "assignee", "reporter" }
DateFields == { "created", "updated", "resolutiondate" }
ListFields == { "labels", "components", "fixVersions", "subtasks", "issuelinks",
                "comment", "attachment" }
OptionalFields == NestedFields \cup DateFields \cup ListFields \cup { "parent" }
EpicFields == { "customfield_10014", "customfield_10008" }
RawFields == { "summary", "description" } \cup OptionalFields \cup EpicFields

\* a field of issue.fields: no such attribute, None, or a value
FieldStates == { "absent", "null", "value" }

\* the sets of optional fields a raw issue may lack
MissingSets == { D \in SUBSET OptionalFields : Cardinality(D) <= MaxMissing }

\* the raw issues: summary and description are there, at most MaxMissing
\* optional fields are absent or null, the epic link field is absent or set
RawIssues ==
    UNION { { [f \in RawFields |->
                 IF f \in D THEN g[f]
                 ELSE IF f = "customfield_10014" THEN e
                 ELSE IF f = "customfield_10008" THEN "absent"
                 ELSE "value"] :
              g \in [D -> { "absent", "null" }], e \in { "absent", "value" } } :
            D \in MissingSets }

None == "None"

\* the value each raw field has when it is set: the attribute the code takes
\* from a nested object, the parsed timestamp, or the list built from it
ValueOf(field) ==
    CASE field = "summary" -> "Fix login"
      [] field = "description" -> "It fails"
      [] field = "status" -> "Open"
      [] field = "priority" -> "High"
      [] field = "issuetype" -> "Task"
      [] field = "assignee" -> "Ann"
      [] field = "reporter" -> "Bob"
      [] field \in DateFields -> "2024-01-15T10:30:00"
      [] field = "labels" -> <<"backend">>
      [] field = "components" -> <<"api">>
      [] field = "fixVersions" -> <<"1.0">>
      [] field = "subtasks" -> <<"SR-2">>
      [] field = "comment" ->
            << [author |-> "Ann", body |-> "ok", created |-> "2024-01-15 10:30:00"] >>
      [] field = "attachment" ->
            << [filename |-> "a.png", url |-> "https://a.example/a.png", size |-> "10",
                mime_type |-> "image/png"] >>
      [] OTHER -> "SR-9"

\* fields.<name>: a plain attribute read raises AttributeError on a missing one
PlainReads ==
    { "summary", "description", "status", "priority", "issuetype", "assignee", "reporter",
      "created", "updated", "labels", "components", "fixVersions" }

\* hasattr(fields, name) and fields.<name>, or getattr(fields, name, None)
Truthy(fields, name) == fields[name] = "value"

\* _get_epic_link_field(fields): the first non-empty of the two custom fields
\* and parent
GetEpicLinkField(fields) ==
    IF Truthy(fields, "customfield_10014") THEN ValueOf("customfield_10014")
    ELSE IF Truthy(fields, "customfield_10008") THEN ValueOf("customfield_10008")
    ELSE IF Truthy(fields, "parent") THEN "SR-1"
    ELSE None

\* most raw links on one issue
MaxLinks == 2

\* a raw link: its type, and whether it has the attributes outwardIssue and
\* inwardIssue
RawLinks == [type : { "Blocks" }, outwardIssue : BOOLEAN, inwardIssue : BOOLEAN]
RawLinkLists == UNION { [1..n -> RawLinks] : n \in 0..MaxLinks }

\* one outward link
DefaultLinks == << [type |-> "Blocks", outwardIssue |-> TRUE, inwardIssue |-> FALSE] >>

\* a key that link_data does not have
NoEntry == "no entry"

\* the loop over fields.issuelinks: one link_data per raw link
LinksToData(links) ==
    [i \in DOMAIN links |->
        IF links[i].outwardIssue
        THEN [type |-> links[i].type, direction |-> "outward", key |-> "SR-3",
              summary |-> "Other"]
        ELSE IF links[i].inwardIssue
        THEN [type |-> links[i].type, direction |-> "inward", key |-> "SR-4",
              summary |-> "Another"]
        ELSE [type |-> links[i].type, direction |-> NoEntry, key |-> NoEntry,
              summary |-> NoEntry]]

\* _issue_to_ticket(issue, base_url)
IssueToTicket(fields, links, base_url) ==
    IF \E name \in PlainReads : fields[name] = "absent"
    THEN [raised |-> "AttributeError"]
    ELSE [raised |-> "none",
          key |-> "SR-5",
          summary |-> ValueOf("summary"),
          description |-> ValueOf("description"),
          status |-> IF Truthy(fields, "status") THEN ValueOf("status") ELSE "",
          priority |-> IF Truthy(fields, "priority") THEN ValueOf("priority") ELSE "",
          issue_type |-> IF Truthy(fields, "issuetype") THEN ValueOf("issuetype") ELSE "",
          assignee |-> IF Truthy(fields, "assignee") THEN ValueOf("assignee") ELSE "",
          reporter |-> IF Truthy(fields, "reporter") THEN ValueOf("reporter") ELSE "",
          created |-> IF Truthy(fields, "created") THEN ValueOf("created") ELSE None,
          updated |-> IF Truthy(fields, "updated") THEN ValueOf("updated") ELSE None,
          resolved |-> IF Truthy(fields, "resolutiondate") THEN ValueOf("resolutiondate") ELSE None,
          labels |-> IF Truthy(fields, "labels") THEN ValueOf("labels") ELSE <<>>,
          url |-> <<base_url, "/browse/", "SR-5">>,
          components |-> IF Truthy(fields, "components") THEN ValueOf("components") ELSE <<>>,
          fix_versions |-> IF Truthy(fields, "fixVersions") THEN ValueOf("fixVersions") ELSE <<>>,
          parent_key |-> IF Truthy(fields, "parent") THEN "SR-1" ELSE None,
          parent_summary |-> IF Truthy(fields, "parent") THEN "Parent" ELSE None,
          epic_key |-> GetEpicLinkField(fields),
          subtasks |-> IF Truthy(fields, "subtasks") THEN ValueOf("subtasks") ELSE <<>>,
          links |-> IF Truthy(fields, "issuelinks") THEN LinksToData(links) ELSE <<>>,
          comments |-> IF Truthy(fields, "comment") THEN ValueOf("comment") ELSE <<>>,
          attachments |-> IF Truthy(fields, "attachment") THEN ValueOf("attachment") ELSE <<>>]

NormIdle == [op |-> "idle", ticket |-> [raised |-> "none"]]

\* JiraClient._issue_to_ticket(issue), with the URL of the client's config
ClientIssueToTicket ==
    /\ ticketResult' = [op |-> "JiraClient._issue_to_ticket",
                        ticket |-> IssueToTicket(rawIssue, rawLinks, "https://a.example")]
    /\ UNCHANGED <<rawIssue, rawLinks, NormOthers>>

\* _issue_to_ticket(issue, base_url) of the ticket domain
QueryIssueToTicket ==
    /\ ticketResult' = [op |-> "_issue_to_ticket",
                        ticket |-> IssueToTicket(rawIssue, rawLinks, "https://a.example")]
    /\ UNCHANGED <<rawIssue, rawLinks, NormOthers>>

(***************************************************************************)
(* Claims about the normalizer                                             *)
(***************************************************************************)

\* the ticket field a raw field ends up in
TicketField(name) ==
    CASE name = "issuetype" -> "issue_type"
      [] name = "resolutiondate" -> "resolved"
      [] name = "fixVersions" -> "fix_versions"
      [] name = "issuelinks" -> "links"
      [] name = "comment" -> "comments"
      [] name = "attachment" -> "attachments"
      [] OTHER -> name

\* C10: whichever optional fields of a raw issue are absent or null,
\* _issue_to_ticket returns a ticket without raising, with the empty string
\* for each missing string field, None for each missing date and an empty
\* list for each missing sequence.
C10_MissingFieldsGiveDefaults ==
    ticketResult.op # "idle" =>
        /\ ticketResult.ticket.raised = "none"
        /\ \A name \in NestedFields \cup DateFields \cup ListFields :
              rawIssue[name] # "value" =>
                  ticketResult.ticket[TicketField(name)] =
                      (IF name \in NestedFields THEN ""
                       ELSE IF name \in DateFields THEN None
                       ELSE <<>>)

\* C20: every element of ticket.links has a direction that is inward or
\* outward together with a type, a key and a summary: a raw link with
\* outwardIssue gives an outward link, one with only inwardIssue an inward
\* link, and no element without direction and key is ever added.
C20_LinksHaveDirectionAndKey ==
    (ticketResult.op # "idle" /\ ticketResult.ticket.raised = "none") =>
        LET links == ticketResult.ticket.links
        IN  /\ \A i \in DOMAIN links :
                  /\ links[i].direction \in { "inward", "outward" }
                  /\ links[i].type # NoEntry
                  /\ links[i].key # NoEntry
                  /\ links[i].summary # NoEntry
            /\ rawIssue["issuelinks"] = "value" =>
                  \A i \in DOMAIN rawLinks :
                      /\ rawLinks[i].outwardIssue =>
                            \E j \in DOMAIN links : links[j].direction = "outward"
                      /\ (rawLinks[i].inwardIssue /\ ~rawLinks[i].outwardIssue) =>
                            \E j \in DOMAIN links : links[j].direction = "inward"

(***************************************************************************)
(* Markdown formatter                                                      *)
(***************************************************************************)

\* most labels on one ticket
MaxLabels == 2

\* the texts the tickets of the model carry
KeyA1 == <<"A","-","1">>
KeyA2 == <<"A","-","2">>
KeyP1 == <<"P","-","1">>
KeyE1 == <<"E","-","1">>
KeyS1 == <<"S","-","1">>
TextUp == <<"U","p">>
TextToDo == <<"T","o"," ","D","o">>
TextHigh == <<"H","i","g","h">>
TextBug == <<"B","u","g">>
TextInQA == <<"I","n"," ","Q","A">>
TextColon == <<"Q",":"," ","A">>
TextHash == <<"U"," ","#","1">>
TextPadded == <<" ","U","p">>
TextAnn == <<"A","n","n">>
TextFix == <<"F","i","x">>
TextFixUp == <<"F","i","x",":"," "," ","U","P">>
TextJob == <<"B","i","g"," ","J","o","b">>
TextEpic == <<"E","p","i","c","/","1">>
TextApi == <<"a","p","i">>
TextBackEnd == <<"B","a","c","k"," ","E","n","d">>

\* the values of status, priority and issue type: empty, plain, mapped by a
\* default table, and with a blank, a colon, a '#' or a leading blank
FieldTexts ==
    { <<>>, TextUp, TextToDo, TextHigh, TextBug, TextInQA, TextColon, TextHash, TextPadded }

\* a datetime, as its date and its time of day
Dates == { [date |-> <<"0","1","-","1","5">>, time |-> <<"1","0",":","3","0">>] }
Nows == { [date |-> <<"0","2","-","0","1">>, time |-> <<"0","9",":","0","0">>],
          [date |-> <<"0","2","-","0","2">>, time |-> <<"0","9",":","0","5">>] }

\* an Optional field that is None; an empty text stands for None and for ""
\* alike, the formatter only tests such fields for truth
NoDate == [date |-> <<>>, time |-> <<>>]

\* f"{base_url}/browse/{key}"
UrlOf(key) == <<"h",":","/","/","j","/">> \o key

\* a ticket with every optional field unset
BlankTicket ==
    [key |-> KeyA1, url |-> UrlOf(KeyA1), summary |-> TextFix, description |-> <<>>,
     status |-> TextUp, priority |-> TextHigh, issue_type |-> TextBug,
     assignee |-> <<>>, reporter |-> <<>>, created |-> NoDate, updated |-> NoDate,
     labels |-> <<>>, parent_key |-> <<>>, parent_summary |-> <<>>,
     epic_key |-> <<>>, epic_name |-> <<>>, subtasks |-> <<>>, links |-> <<>>,
     comments |-> <<>>, attachments |-> <<>>]

LabelLists == UNION { [1..n -> { TextApi, TextBackEnd }] : n \in 0..MaxLabels }

\* tickets that differ in which optional front-matter fields are set
PresenceTickets ==
    { [BlankTicket EXCEPT !.assignee = a, !.reporter = r, !.created = c, !.updated = u,
                          !.parent_key = p, !.epic_key = e, !.labels = l] :
        a \in { <<>>, TextAnn }, r \in { <<>>, TextAnn }, c \in { NoDate } \cup Dates,
        u \in { NoDate } \cup Dates, p \in { <<>>, KeyP1 }, e \in { <<>>, KeyE1 },
        l \in LabelLists }

\* tickets that differ in status, priority and issue type
TextTickets ==
    { [BlankTicket EXCEPT !.status = st, !.priority = pr, !.issue_type = ty] :
        st \in FieldTexts, pr \in FieldTexts, ty \in FieldTexts }

\* tickets that differ in what names the file and the category
NameTickets ==
    { [BlankTicket EXCEPT !.key = k, !.url = UrlOf(k), !.summary = su,
                          !.parent_summary = ps, !.epic_name = en, !.issue_type = ty,
                          !.status = st] :
        k \in { KeyA1, KeyA2 }, su \in { <<>>, TextFix, TextFixUp, <<"?">> },
        ps \in { <<>>, TextJob }, en \in { <<>>, TextEpic }, ty \in { <<>>, TextBug },
        st \in { TextUp, TextToDo } }

OneLink == [type |-> "Blocks", direction |-> "outward", key |-> KeyS1, summary |-> TextFix]
OneComment == [author |-> TextAnn, body |-> TextFix, created |-> <<"0","1","-","1","5">>]
OneAttachment == [filename |-> TextApi, url |-> UrlOf(TextApi), size |-> 10]

\* tickets that differ in their relations and attachments
RelationTickets ==
    { [BlankTicket EXCEPT !.parent_key = p, !.parent_summary = IF p = <<>> THEN <<>> ELSE TextJob,
                          !.epic_key = e, !.links = li, !.subtasks = sub,
                          !.description = d, !.comments = co, !.attachments = co2] :
        p \in { <<>>, KeyP1 }, e \in { <<>>, KeyP1, KeyE1 }, li \in { <<>>, <<OneLink>> },
        sub \in { <<>>, <<KeyS1>> }, d \in { <<>>, TextFix },
        co \in { <<>>, <<OneComment>> },
        co2 \in { <<>>, <<OneAttachment>> } }

FormatTickets == PresenceTickets \cup TextTickets \cup NameTickets \cup RelationTickets

\* Config.status_tags, priority_tags and type_tags as shipped, for the values
\* of the model
DefaultStatusTags ==
    [t \in { TextToDo } |-> <<"s","t","a","t","u","s","/","t","o","d","o">>]
DefaultPriorityTags ==
    [t \in { TextHigh } |-> <<"p","r","i","o","r","i","t","y","/","h","i","g","h">>]
DefaultTypeTags ==
    [t \in { TextBug } |-> <<"t","y","p","e","/","b","u","g">>]
NoTags == [t \in {} |-> <<>>]

\* the configurations the formatter runs under: the defaults, one with
\* empty tag tables that leaves comments, attachments and links out, and the
\* defaults with links alone left out
FormatConfigs ==
    { [status_tags |-> DefaultStatusTags, priority_tags |-> DefaultPriorityTags,
       type_tags |-> DefaultTypeTags, include_comments |-> TRUE, include_attachments |-> TRUE,
       include_links |-> TRUE],
      [status_tags |-> NoTags, priority_tags |-> NoTags,
       type_tags |-> NoTags, include_comments |-> FALSE, include_attachments |-> FALSE,
       include_links |-> FALSE],
      [status_tags |-> DefaultStatusTags, priority_tags |-> DefaultPriorityTags,
       type_tags |-> DefaultTypeTags, include_comments |-> TRUE, include_attachments |-> TRUE,
       include_links |-> FALSE] }

\* dict.get(key, default)
Get(table, key, default) == IF key \in DOMAIN table THEN table[key] ELSE default

\* str.replace(old, new) for single characters
Replace(s, old, new) == [i \in DOMAIN s |-> IF s[i] = old THEN new ELSE s[i]]

\* Config.get_status_tag(status)
GetStatusTag(config, status) ==
    Get(config.status_tags, status,
        <<"s","t","a","t","u","s","/">> \o Replace(Lower(status), " ", "-"))

\* Config.get_priority_tag(priority)
GetPriorityTag(config, priority) ==
    Get(config.priority_tags, priority,
        <<"p","r","i","o","r","i","t","y","/">> \o Lower(priority))

\* Config.get_type_tag(issue_type)
GetTypeTag(config, issue_type) ==
    Get(config.type_tags, issue_type,
        <<"t","y","p","e","/">> \o Replace(Lower(issue_type), " ", "-"))

\* TicketFormatter._build_tags(ticket): the tags, each with its leading '#'
BuildTags(ticket, config) ==
    (IF ticket.status # <<>> THEN << <<"#">> \o GetStatusTag(config, ticket.status) >> ELSE <<>>)
    \o (IF ticket.priority # <<>>
        THEN << <<"#">> \o GetPriorityTag(config, ticket.priority) >> ELSE <<>>)
    \o (IF ticket.issue_type # <<>>
        THEN << <<"#">> \o GetTypeTag(config, ticket.issue_type) >> ELSE <<>>)
    \o [i \in DOMAIN ticket.labels |->
          <<"#","l","a","b","e","l","/">> \o Replace(Lower(ticket.labels[i]), " ", "-")]

\* sep.join(texts)
RECURSIVE Join(_, _)
Join(texts, sep) ==
    IF texts = <<>> THEN <<>>
    ELSE IF Len(texts) = 1 THEN texts[1]
    ELSE texts[1] \o sep \o Join(Tail(texts), sep)

\* one line f"{name}: {value}" of the front matter
Entry(name, value) == [name |-> name, value |-> value]

\* a front matter that appends the optional lines after the synced line
BuildFrontmatterSyncedFirst(ticket, now) ==
    << Entry("jira_key", ticket.key),
       Entry("jira_url", ticket.url),
       Entry("status", ticket.status),
       Entry("priority", ticket.priority),
       Entry("type", ticket.issue_type),
       Entry("synced", now.date \o <<" ">> \o now.time) >>
    \o (IF ticket.assignee # <<>> THEN << Entry("assignee", ticket.assignee) >> ELSE <<>>)
    \o (IF ticket.labels # <<>> THEN << Entry("labels", Join(ticket.labels, <<",">>)) >> ELSE <<>>)

\* TicketFormatter._build_frontmatter(ticket): the lines between the two
\* "---" lines, in order; now is datetime.now()
BuildFrontmatter(ticket, now) ==
    << Entry("jira_key", ticket.key),
       Entry("jira_url", ticket.url),
       Entry("status", ticket.status),
       Entry("priority", ticket.priority),
       Entry("type", ticket.issue_type) >>
    \o (IF ticket.assignee # <<>> THEN << Entry("assignee", ticket.assignee) >> ELSE <<>>)
    \o (IF ticket.reporter # <<>> THEN << Entry("reporter", ticket.reporter) >> ELSE <<>>)
    \o (IF ticket.created # NoDate THEN << Entry("created", ticket.created.date) >> ELSE <<>>)
    \o (IF ticket.updated # NoDate THEN << Entry("updated", ticket.updated.date) >> ELSE <<>>)
    \o (IF ticket.parent_key # <<>> THEN << Entry("parent", ticket.parent_key) >> ELSE <<>>)
    \o (IF ticket.epic_key # <<>> THEN << Entry("epic", ticket.epic_key) >> ELSE <<>>)
    \o (IF ticket.labels # <<>>
        THEN << Entry("labels", <<"[">> \o Join(ticket.labels, <<","," ">>) \o <<"]">>) >>
        ELSE <<>>)
    \o << Entry("synced", now.date \o <<" ">> \o now.time) >>

\* one line of the Related Tickets section: "**label:** [[ref]] - text"
RelatedLine(label, inward, ref, text) ==
    [label |-> label, inward |-> inward, ref |-> ref, text |-> text]

\* TicketFormatter._build_links_section(ticket)
BuildLinksSection(ticket) ==
    [heading |-> "Related Tickets",
     lines |->
        (IF ticket.parent_key # <<>>
         THEN << RelatedLine("Parent", FALSE, ticket.parent_key, ticket.parent_summary) >>
         ELSE <<>>)
        \o (IF ticket.epic_key # <<>> /\ ticket.epic_key # ticket.parent_key
            THEN << RelatedLine("Epic", FALSE, ticket.epic_key, <<>>) >>
            ELSE <<>>)
        \o [i \in DOMAIN ticket.links |->
              RelatedLine(ticket.links[i].type, ticket.links[i].direction # "outward",
                          ticket.links[i].key, ticket.links[i].summary)]
        \o [i \in DOMAIN ticket.subtasks |->
              RelatedLine("Subtask", FALSE, ticket.subtasks[i], <<>>)]]

\* jira_to_markdown(text): the Markdown for a text in Jira markup
JiraToMarkdown(text) == [markdown_of |-> text]

\* format_size(size): a size for people to read
FormatSize(size) == [size_of |-> size]

\* TicketFormatter._build_comments_section(ticket)
BuildCommentsSection(ticket) ==
    [heading |-> "Comments",
     lines |-> [i \in DOMAIN ticket.comments |->
                  [author |-> ticket.comments[i].author,
                   created |-> ticket.comments[i].created,
                   fenced |-> JiraToMarkdown(ticket.comments[i].body)]]]

\* TicketFormatter._build_attachments_section(ticket)
BuildAttachmentsSection(ticket) ==
    [heading |-> "Attachments",
     lines |-> [i \in DOMAIN ticket.attachments |->
                  [filename |-> ticket.attachments[i].filename,
                   url |-> ticket.attachments[i].url,
                   size |-> FormatSize(ticket.attachments[i].size)]]]

\* TicketFormatter._build_markdown(ticket) in full: front matter, title, tag
\* line and the sections
BuildMarkdownFull(ticket, config, now) ==
    [frontmatter |-> BuildFrontmatter(ticket, now),
     title |-> ticket.key \o <<":"," ">> \o ticket.summary,
     tags |-> BuildTags(ticket, config),
     sections |->
        (IF ticket.description # <<>>
         THEN << [heading |-> "Description", lines |-> << JiraToMarkdown(ticket.description) >>] >>
         ELSE <<>>)
        \o (IF ticket.links # <<>> \/ ticket.parent_key # <<>> \/ ticket.subtasks # <<>>
            THEN << BuildLinksSection(ticket) >> ELSE <<>>)
        \o (IF ticket.comments # <<>> /\ config.include_comments
            THEN << BuildCommentsSection(ticket) >> ELSE <<>>)
        \o (IF ticket.attachments # <<>> /\ config.include_attachments
            THEN << BuildAttachmentsSection(ticket) >> ELSE <<>>)]

\* TicketFormatter.format_ticket(ticket, category) with the content in full
FormatTicketFull(ticket, category, config, now) ==
    [FormatTicket(ticket, category) EXCEPT !.content = BuildMarkdownFull(ticket, config, now)]

\* the categories a caller passes: None, the empty text, a folder name
FormatCategories == Categories \cup { <<>> }

FormatIdle == [op |-> "idle"]

\* TicketFormatter(config).format_ticket(ticket, category) at time now
FormatTicketCall ==
    /\ formatResult = FormatIdle
    /\ \E ticket \in FormatTickets, category \in FormatCategories,
          config \in FormatConfigs, now \in Nows :
            formatResult' = [op |-> "format_ticket", ticket |-> ticket,
                             category |-> category, config |-> config, now |-> now,
                             formatted |-> FormatTicketFull(ticket, category, config, now)]
    /\ UNCHANGED FormatOthers

\* longest list of tickets handed to format_ticket_list
MaxListLen == 3

\* the tickets of the lists: categories from the issue type ("Bug", "api"),
\* the parent ("Big Job"), the epic ("Epic1") and the default; statuses,
\* priorities and types that repeat, differ and are empty
ListTickets ==
    { BlankTicket,
      [BlankTicket EXCEPT !.key = KeyA2, !.status = TextToDo, !.issue_type = TextApi],
      [BlankTicket EXCEPT !.key = KeyP1, !.priority = <<>>, !.parent_summary = TextJob],
      [BlankTicket EXCEPT !.key = KeyS1, !.status = <<>>, !.issue_type = <<>>],
      [BlankTicket EXCEPT !.key = KeyE1, !.status = TextToDo, !.priority = TextUp,
                          !.epic_name = TextEpic],
      [BlankTicket EXCEPT !.key = KeyA2, !.summary = TextFixUp, !.status = TextInQA,
                          !.issue_type = TextApi] }

TicketLists == UNION { [1..n -> ListTickets] : n \in 0..MaxListLen }

\* the characters of the model in code-point order
CharOrder ==
    << " ", "#", "*", "-", "/", "1", "2", "3", ":", "?",
       "A", "B", "C", "D", "E", "F", "G", "H", "I", "J", "K", "L", "M",
       "N", "O", "P", "Q", "R", "S", "T", "U", "V", "W", "X", "Y", "Z",
       "a", "b", "c", "d", "e", "f", "g", "h", "i", "j", "k", "l", "m",
       "n", "o", "p", "q", "r", "s", "t", "u", "v", "w", "x", "y", "z" >>

\* ord(c)
CodePoint(c) == CHOOSE i \in DOMAIN CharOrder : CharOrder[i] = c

\* a < b for two str values: by the first differing character, a proper
\* prefix first
RECURSIVE StrLess(_, _)
StrLess(a, b) ==
    IF b = <<>> THEN FALSE
    ELSE IF a = <<>> THEN TRUE
    ELSE IF Head(a) = Head(b) THEN StrLess(Tail(a), Tail(b))
    ELSE CodePoint(Head(a)) < CodePoint(Head(b))

\* sorted(values) for a set of str
RECURSIVE SortedSet(_)
SortedSet(values) ==
    IF values = {} THEN <<>>
    ELSE LET least == CHOOSE v \in values : \A w \in values \ { v } : StrLess(v, w)
         IN  << least >> \o SortedSet(values \ { least })

\* set(field for t in tickets if field)
NonEmptyValues(tickets, field(_)) ==
    { field(tickets[i]) : i \in DOMAIN tickets } \ { <<>> }

StatusOf(t) == t.status
PriorityOf(t) == t.priority
TypeOf(t) == t.issue_type

\* one line f"- **{label}:** {', '.join(sorted(values))}" of the summary
SummaryLine(label, values) == [label |-> label, values |-> SortedSet(values)]

\* the Statuses, Priorities and Types lines, each only for a non-empty set
SummaryLines(tickets) ==
    LET statuses == NonEmptyValues(tickets, StatusOf)
        priorities == NonEmptyValues(tickets, PriorityOf)
        types == NonEmptyValues(tickets, TypeOf)
    IN  (IF statuses # {} THEN << SummaryLine("Statuses", statuses) >> ELSE <<>>)
        \o (IF priorities # {} THEN << SummaryLine("Priorities", priorities) >> ELSE <<>>)
        \o (IF types # {} THEN << SummaryLine("Types", types) >> ELSE <<>>)

\* TicketFormatter._build_ticket_table: one row per ticket, in input order
BuildTicketTable(tickets) ==
    [i \in DOMAIN tickets |->
        [key |-> tickets[i].key, summary |-> tickets[i].summary,
         status |-> tickets[i].status, priority |-> tickets[i].priority,
         issue_type |-> tickets[i].issue_type]]

\* the categories dict after the first loop of _build_category_sections: one
\* item per category in order of first appearance, its tickets appended in
\* input order
RECURSIVE GroupByCategory(_, _)
GroupByCategory(tickets, categories) ==
    IF tickets = <<>> THEN categories
    ELSE LET ticket == Head(tickets)
             category == DetectCategory(ticket).name
             known == { i \in DOMAIN categories : categories[i].category = category }
         IN  GroupByCategory(Tail(tickets),
                IF known = {}
                THEN Append(categories, [category |-> category, tickets |-> << ticket >>])
                ELSE [i \in DOMAIN categories |->
                        IF i \in known
                        THEN [categories[i] EXCEPT !.tickets = Append(@, ticket)]
                        ELSE categories[i]])

\* the items of the dict as they were inserted
ItemsInInsertionOrder(categories) == categories

\* sorted(categories.items()): the keys differ, so the items are ordered by
\* category name alone
RECURSIVE SortedItems(_)
SortedItems(categories) ==
    IF categories = <<>> THEN <<>>
    ELSE LET least == CHOOSE i \in DOMAIN categories :
                         \A j \in DOMAIN categories \ { i } :
                            StrLess(categories[i].category, categories[j].category)
             rest == [k \in 1..(Len(categories) - 1) |->
                        IF k < least THEN categories[k] ELSE categories[k + 1]]
         IN  << categories[least] >> \o SortedItems(rest)

\* f"- {ticket.key} - {ticket.summary}"
TicketLine(ticket) == [key |-> ticket.key, summary |-> ticket.summary]

\* TicketFormatter._build_category_sections: "### {category}" and one line
\* per ticket of the category
BuildCategorySections(tickets) ==
    LET items == SortedItems(GroupByCategory(tickets, <<>>))
    IN  [i \in DOMAIN items |->
            [category |-> items[i].category,
             lines |-> [j \in DOMAIN items[i].tickets |-> TicketLine(items[i].tickets[j])]]]

\* `tickets[:5]`
QuickLinksMax == 5

\* TicketFormatter.format_ticket_list(tickets, title, include_table,
\* include_categories): the document by its parts
FormatTicketList(tickets, include_table, include_categories) ==
    [total |-> Len(tickets),
     summary |-> IF tickets # <<>> THEN SummaryLines(tickets) ELSE <<>>,
     table |-> IF include_table /\ tickets # <<>> THEN BuildTicketTable(tickets) ELSE <<>>,
     categories |-> IF include_categories /\ tickets # <<>>
                    THEN BuildCategorySections(tickets) ELSE <<>>,
     quick_links |-> [i \in 1..(IF Len(tickets) < QuickLinksMax THEN Len(tickets)
                                 ELSE QuickLinksMax) |-> TicketLine(tickets[i])]]

\* TicketFormatter(config).format_ticket_list(tickets, ...)
FormatTicketListCall ==
    /\ formatResult = FormatIdle
    /\ \E tickets \in TicketLists, include_table \in BOOLEAN, include_categories \in BOOLEAN :
            formatResult' = [op |-> "format_ticket_list", tickets |-> tickets,
                             include_table |-> include_table,
                             include_categories |-> include_categories,
                             content |-> FormatTicketList(tickets, include_table,
                                                          include_categories)]
    /\ UNCHANGED FormatOthers

\* the caller is done with the FormattedTicket
FormatReturn ==
    /\ formatResult # FormatIdle
    /\ formatResult' = FormatIdle
    /\ UNCHANGED FormatOthers

(***************************************************************************)
(* Claims about the formatter                                              *)
(***************************************************************************)

\* format_ticket has returned
Formatted == formatResult.op = "format_ticket"

\* the names of the front matter lines, in order
FrontmatterKeys ==
    [i \in DOMAIN formatResult.formatted.content.frontmatter |->
        formatResult.formatted.content.frontmatter[i].name]

\* the fixed order of the front matter
KeyOrder ==
    << "jira_key", "jira_url", "status", "priority", "type", "assignee", "reporter",
       "created", "updated", "parent", "epic", "labels", "synced" >>

\* whether the key is due for the ticket: always for the five leading keys
\* and synced, for an optional key when its field is non-empty
KeyDue(name, ticket) ==
    CASE name = "assignee" -> ticket.assignee # <<>>
      [] name = "reporter" -> ticket.reporter # <<>>
      [] name = "created" -> ticket.created # NoDate
      [] name = "updated" -> ticket.updated # NoDate
      [] name = "parent" -> ticket.parent_key # <<>>
      [] name = "epic" -> ticket.epic_key # <<>>
      [] name = "labels" -> ticket.labels # <<>>
      [] OTHER -> TRUE

\* the elements of s that satisfy Due, in the order of s
RECURSIVE DueKeys(_, _)
DueKeys(s, ticket) ==
    IF s = <<>> THEN <<>>
    ELSE (IF KeyDue(Head(s), ticket) THEN <<Head(s)>> ELSE <<>>) \o DueKeys(Tail(s), ticket)

\* C11: the front matter lists its keys as a subsequence of the fixed order
\* jira_key, jira_url, status, priority, type, assignee, reporter, created,
\* updated, parent, epic, labels, synced: the five leading keys and synced
\* always, each optional key exactly when its ticket field is non-empty, in
\* an order that does not depend on which optional fields are set.
C11_FrontmatterOrderFixed ==
    Formatted => FrontmatterKeys = DueKeys(KeyOrder, formatResult.ticket)

\* a ticket with assignee, updated, epic and labels but without reporter,
\* created and parent was rendered
C11_Witness ==
    /\ Formatted
    /\ formatResult.ticket.assignee # <<>>
    /\ formatResult.ticket.reporter = <<>>
    /\ formatResult.ticket.created = NoDate
    /\ formatResult.ticket.updated # NoDate
    /\ formatResult.ticket.parent_key = <<>>
    /\ formatResult.ticket.epic_key # <<>>
    /\ Len(formatResult.ticket.labels) = MaxLabels

\* the same key and summary on a ticket that has nothing else
KeyAndSummaryOnly(ticket) ==
    [BlankTicket EXCEPT !.key = ticket.key, !.summary = ticket.summary,
                        !.status = <<>>, !.priority = <<>>, !.issue_type = <<>>]

\* C12: the filename of format_ticket depends only on the ticket's key and
\* summary (the same ticket stripped of every other field, formatted with
\* another category, configuration and time, gets the same filename); it is
\* {key}.md when the summary is empty and {key}-{sanitized summary}.md
\* otherwise.
C12_FilenameFromKeyAndSummary ==
    Formatted =>
        LET ticket == formatResult.ticket
            filename == formatResult.formatted.filename
        IN  /\ \A category \in FormatCategories, config \in FormatConfigs, now \in Nows :
                  FormatTicketFull(KeyAndSummaryOnly(ticket), category, config, now).filename
                      = filename
            /\ filename =
                  IF ticket.summary = <<>>
                  THEN [key |-> ticket.key, dash |-> FALSE, slug |-> <<>>]
                  ELSE [key |-> ticket.key, dash |-> TRUE,
                        slug |-> SanitizeName(ticket.summary, FilenameMaxLength, TRUE)]

\* a ticket with a summary that needs sanitizing, a parent and an epic name
\* was formatted into a given category
C12_Witness ==
    /\ Formatted
    /\ formatResult.ticket.summary = TextFixUp
    /\ formatResult.ticket.status = TextToDo
    /\ formatResult.ticket.parent_summary # <<>>
    /\ formatResult.category \notin { NoCategory, <<>> }
    /\ formatResult.formatted.filename.slug # formatResult.ticket.summary

\* text without its leading and trailing blanks
RECURSIVE StripBlanks(_)
StripBlanks(s) ==
    IF s = <<>> THEN <<>>
    ELSE IF Head(s) = " " THEN StripBlanks(Tail(s))
    ELSE IF s[Len(s)] = " " THEN StripBlanks(SubSeq(s, 1, Len(s) - 1))
    ELSE s

\* where a YAML comment starts in the text of a value: at a '#' that opens
\* the text or follows a blank; Len + 1 when there is none
CommentStart(s) ==
    LET starts == { i \in DOMAIN s : s[i] = "#" /\ (i = 1 \/ s[i - 1] = " ") }
    IN  IF starts = {} THEN Len(s) + 1 ELSE CHOOSE i \in starts : \A j \in starts : i <= j

\* a colon that YAML reads as the start of a nested mapping: one followed by
\* a blank or ending the text
NestedMapping(s) ==
    \E i \in DOMAIN s : s[i] = ":" /\ (i = Len(s) \/ s[i + 1] = " ")

\* the value a YAML reader gets from the front matter line "name: text"; an
\* empty value reads as null, taken here as the empty text
YamlValue(text) ==
    LET plain == StripBlanks(SubSeq(text, 1, CommentStart(text) - 1))
    IN  IF NestedMapping(plain) THEN [ok |-> FALSE, value |-> <<>>]
        ELSE [ok |-> TRUE, value |-> plain]

\* the front matter line of that name, parsed
ParsedField(name) ==
    LET lines == formatResult.formatted.content.frontmatter
        i == CHOOSE j \in DOMAIN lines : lines[j].name = name
    IN  YamlValue(lines[i].value)

\* the ticket field a front matter key stands for
FieldOfKey(name, ticket) ==
    CASE name = "jira_key" -> ticket.key
      [] name = "status" -> ticket.status
      [] name = "priority" -> ticket.priority
      [] name = "type" -> ticket.issue_type

\* C13: parsing the front matter of the rendered document recovers key,
\* status, priority and type exactly as set on the ticket, also when a value
\* is empty or contains a colon, '#' or surrounding whitespace.
C13_FrontmatterRoundTrip ==
    Formatted =>
        \A name \in { "jira_key", "status", "priority", "type" } :
            /\ ParsedField(name).ok
            /\ ParsedField(name).value = FieldOfKey(name, formatResult.ticket)

\* the tag the rule gives: the mapped value, or "<category>/" followed by
\* the value lowercased with every blank replaced by a dash
RuleTag(table, category, value) ==
    <<"#">> \o Get(table, value, category \o <<"/">> \o Replace(Lower(value), " ", "-"))

\* the tags for status, priority and issue type under that one rule
RuleTags(ticket, config) ==
    (IF ticket.status # <<>>
     THEN << RuleTag(config.status_tags, <<"s","t","a","t","u","s">>, ticket.status) >>
     ELSE <<>>)
    \o (IF ticket.priority # <<>>
        THEN << RuleTag(config.priority_tags, <<"p","r","i","o","r","i","t","y">>,
                        ticket.priority) >>
        ELSE <<>>)
    \o (IF ticket.issue_type # <<>>
        THEN << RuleTag(config.type_tags, <<"t","y","p","e">>, ticket.issue_type) >>
        ELSE <<>>)

\* C14: for each of status, priority and issue type the tag is the mapped
\* value when the table has the value, and otherwise "<category>/" + the
\* value lowercased with every space replaced by a dash, identically for the
\* three tables, so that no generated tag contains a space.
C14_TagsFallBackDashed ==
    Formatted =>
        LET tags == formatResult.formatted.content.tags
            rule == RuleTags(formatResult.ticket, formatResult.config)
        IN  /\ SubSeq(tags, 1, Len(rule)) = rule
            /\ \A i \in DOMAIN tags : \A j \in DOMAIN tags[i] : tags[i][j] # " "

\* C15: the category of format_ticket is the caller's whenever one is given
\* (also an empty one); otherwise it is the sanitized parent summary when the
\* ticket has a parent summary, else the sanitized epic name when it has an
\* epic name, else the issue type when it has one, else "General".
C15_CategoryGivenOrDerived ==
    Formatted =>
        LET ticket == formatResult.ticket
            category == formatResult.formatted.category.name
        IN  IF formatResult.category # NoCategory
            THEN category = formatResult.category
            ELSE IF ticket.parent_summary # <<>>
            THEN category = SanitizeName(ticket.parent_summary, CategoryMaxLength, FALSE)
            ELSE IF ticket.epic_name # <<>>
            THEN category = SanitizeName(ticket.epic_name, CategoryMaxLength, FALSE)
            ELSE IF ticket.issue_type # <<>>
            THEN category = ticket.issue_type
            ELSE category = <<"G","e","n","e","r","a","l">>

\* no category was given and the ticket has an epic name and an issue type
\* but no parent: the category comes from the epic name, sanitized
C15_Witness ==
    /\ Formatted
    /\ formatResult.category = NoCategory
    /\ formatResult.ticket.parent_summary = <<>>
    /\ formatResult.ticket.epic_name = TextEpic
    /\ formatResult.ticket.issue_type # <<>>
    /\ formatResult.formatted.category.name = <<"E","p","i","c","1">>

\* C16: the rendered ticket has a Related Tickets section exactly when the
\* ticket has a parent, an epic, links or subtasks; a ticket whose only
\* relation is an epic key gets the section with the [[epic key]] reference.
C16_RelatedSectionWhenAnyRelation ==
    Formatted =>
        LET ticket == formatResult.ticket
            sections == formatResult.formatted.content.sections
            related == { i \in DOMAIN sections : sections[i].heading = "Related Tickets" }
        IN  /\ related # {} <=>
                 \/ ticket.parent_key # <<>>
                 \/ ticket.epic_key # <<>>
                 \/ ticket.links # <<>>
                 \/ ticket.subtasks # <<>>
            /\ ( /\ ticket.epic_key # <<>>
                 /\ ticket.parent_key = <<>>
                 /\ ticket.links = <<>>
                 /\ ticket.subtasks = <<>> )
               => \E i \in related : \E j \in DOMAIN sections[i].lines :
                     /\ sections[i].lines[j].label = "Epic"
                     /\ sections[i].lines[j].ref = ticket.epic_key

\* the rendered ticket has a section with this heading
HasSection(heading) ==
    \E i \in DOMAIN formatResult.formatted.content.sections :
        formatResult.formatted.content.sections[i].heading = heading

\* C30: each include flag suppresses its section: no Comments section when
\* include_comments is false, no Attachments section when include_attachments
\* is false, no Related Tickets section when include_links is false; with the
\* flag true the section appears exactly when the ticket has comments,
\* attachments, or relations (parent, epic, links, subtasks).
C30_IncludeFlagsSuppressSections ==
    Formatted =>
        LET ticket == formatResult.ticket
            config == formatResult.config
        IN  /\ HasSection("Comments") <=>
                 (config.include_comments /\ ticket.comments # <<>>)
            /\ HasSection("Attachments") <=>
                 (config.include_attachments /\ ticket.attachments # <<>>)
            /\ HasSection("Related Tickets") <=>
                 /\ config.include_links
                 /\ \/ ticket.parent_key # <<>>
                    \/ ticket.epic_key # <<>>
                    \/ ticket.links # <<>>
                    \/ ticket.subtasks # <<>>

\* C30, the part about links alone: with include_links false a ticket that
\* carries issue links is rendered without a Related Tickets section
C30_LinksFlagSuppressesSection ==
    (Formatted /\ ~formatResult.config.include_links /\ formatResult.ticket.links # <<>>)
        => ~HasSection("Related Tickets")

ListFormatted == formatResult.op = "format_ticket_list"

\* the tickets of the input in one category, in input order, as lines
RECURSIVE LinesOfCategory(_, _)
LinesOfCategory(tickets, category) ==
    IF tickets = <<>> THEN <<>>
    ELSE (IF DetectCategory(Head(tickets)).name = category
          THEN << [key |-> Head(tickets).key, summary |-> Head(tickets).summary] >>
          ELSE <<>>)
         \o LinesOfCategory(Tail(tickets), category)

\* a summary line with this label lists exactly these values, ascending
SummaryLists(label, values) ==
    LET lines == formatResult.content.summary
        at == { i \in DOMAIN lines : lines[i].label = label }
    IN  IF values = {} THEN at = {}
        ELSE /\ Cardinality(at) = 1
             /\ \A i \in at :
                   /\ { lines[i].values[k] : k \in DOMAIN lines[i].values } = values
                   /\ \A k \in 1..(Len(lines[i].values) - 1) :
                         StrLess(lines[i].values[k], lines[i].values[k + 1])

\* C23: in format_ticket_list with category grouping the groups partition
\* the input (there is one group per detected category of the input, and a
\* group holds exactly the tickets of its category, in input order), the
\* groups come in ascending order of category name, and the Statuses,
\* Priorities and Types lines list the distinct non-empty values ascending.
C23_GroupsPartitionSorted ==
    (ListFormatted /\ formatResult.include_categories /\ formatResult.tickets # <<>>) =>
        LET tickets == formatResult.tickets
            groups == formatResult.content.categories
        IN  /\ { groups[g].category : g \in DOMAIN groups } =
                  { DetectCategory(tickets[i]).name : i \in DOMAIN tickets }
            /\ \A g \in DOMAIN groups :
                  groups[g].lines = LinesOfCategory(tickets, groups[g].category)
            /\ \A g \in 1..(Len(groups) - 1) :
                  StrLess(groups[g].category, groups[g + 1].category)
            /\ SummaryLists("Statuses",
                    { tickets[i].status : i \in DOMAIN tickets } \ { <<>> })
            /\ SummaryLists("Priorities",
                    { tickets[i].priority : i \in DOMAIN tickets } \ { <<>> })
            /\ SummaryLists("Types",
                    { tickets[i].issue_type : i \in DOMAIN tickets } \ { <<>> })

\* three tickets whose categories first appear in descending order, the
\* first and the last sharing one, were grouped
C23_Witness ==
    /\ ListFormatted
    /\ formatResult.include_categories
    /\ Len(formatResult.tickets) = 3
    /\ Len(formatResult.content.categories) = 2
    /\ Len(formatResult.content.categories[2].lines) = 2
    /\ DetectCategory(formatResult.tickets[1]).name = formatResult.content.categories[2].category
    /\ DetectCategory(formatResult.tickets[3]).name = formatResult.content.categories[2].category

(***************************************************************************)
(* Paginated searches                                                      *)
(***************************************************************************)

\* most issues the remote holds
MaxIssues == 4

\* the page size of the epic queries: 50 in the code, scaled to the model
DefaultBatchSize == 2

\* largest page size a caller asks for
MaxBatchSize == 3

EpicKeys == { "EPIC-1", "EPIC-2" }

\* the issues the remote may hold: issue i has key i, a classic epic link or
\* none, and a parent or none
NoEpic == "None"
IssueLists ==
    UNION { { [i \in 1..n |-> [key |-> i, epic_link |-> f[i][1], parent |-> f[i][2]]] :
                f \in [1..n -> { NoEpic, "EPIC-1" } \X ({ NoEpic } \cup EpicKeys)] } :
            n \in 0..MaxIssues }

\* the queries of the model: one that every issue matches, and
\* f'"Epic Link" = {epic_key} OR parent = {epic_key}'
AllIssuesJql == [kind |-> "all"]

\* a query for the classic epic link alone: f'"Epic Link" = {epic_key}'
EpicJqlLinkOnly(epic_key) == [kind |-> "epic", epic_link |-> epic_key, parent |-> "nothing"]

\* f'"Epic Link" = {epic_key} OR parent = {epic_key}'
EpicJql(epic_key) == [kind |-> "epic", epic_link |-> epic_key, parent |-> epic_key]

\* the remote's reading of the query for one issue
JqlMatches(issue, jql) ==
    \/ jql.kind = "all"
    \/ /\ jql.kind = "epic"
       /\ (issue.epic_link = jql.epic_link \/ issue.parent = jql.parent)

\* the keys of the matching issues, in the remote's order
RECURSIVE MatchingKeys(_, _)
MatchingKeys(list, jql) ==
    IF list = <<>> THEN <<>>
    ELSE (IF JqlMatches(Head(list), jql) THEN << Head(list).key >> ELSE <<>>)
         \o MatchingKeys(Tail(list), jql)

\* client.search_issues(jql, maxResults, startAt): the matches at positions
\* start_at .. start_at + max_results - 1 (counted from 0), as tickets
SearchIssues(jql, max_results, start_at) ==
    LET found == MatchingKeys(issues, jql)
        last == IF start_at + max_results < Len(found) THEN start_at + max_results
                ELSE Len(found)
    IN  SubSeq(found, start_at + 1, last)

\* a loop that also stops after a full page
LastPageOrFull(batch, batch_size) == Len(batch) <= batch_size

\* a loop that goes on after a short page, until an empty one
LastPageNever(batch, batch_size) == FALSE

\* `if len(batch) < batch_size: break`
LastPage(batch, batch_size) == Len(batch) < batch_size

SearchIdle == [op |-> "idle", pc |-> "idle"]

\* the loop variables on entry: all_tickets = [], start_at = 0
Searching(op, jql, batch_size) ==
    [op |-> op, pc |-> "fetch", jql |-> jql, batch_size |-> batch_size,
     start_at |-> 0, all_tickets |-> <<>>, calls |-> 0]

\* JiraClient.search_all_tickets(jql, batch_size) is called
SearchAllTickets ==
    /\ search = SearchIdle
    /\ \E batch_size \in 1..MaxBatchSize :
          search' = Searching("search_all_tickets", AllIssuesJql, batch_size)
    /\ UNCHANGED <<issues, SearchOthers>>

\* execute_jql_all(jql, config, batch_size) is called
ExecuteJqlAll ==
    /\ search = SearchIdle
    /\ \E batch_size \in 1..MaxBatchSize :
          search' = Searching("execute_jql_all", AllIssuesJql, batch_size)
    /\ UNCHANGED <<issues, SearchOthers>>

\* JiraClient.get_epic_tickets(epic_key) is called: search_all_tickets with
\* the epic query and the default page size
GetEpicTickets ==
    /\ search = SearchIdle
    /\ \E epic_key \in EpicKeys :
          search' = Searching("get_epic_tickets", EpicJql(epic_key), DefaultBatchSize)
    /\ UNCHANGED <<issues, SearchOthers>>

\* fetch_epic_children(epic_key, config) is called
FetchEpicChildren ==
    /\ search = SearchIdle
    /\ \E epic_key \in EpicKeys :
          search' = Searching("fetch_epic_children", EpicJql(epic_key), DefaultBatchSize)
    /\ UNCHANGED <<issues, SearchOthers>>

\* one turn of the `while True` loop: fetch a page; stop on an empty page,
\* otherwise append it, advance start_at and stop on a short page
FetchPage ==
    /\ search.pc = "fetch"
    /\ LET batch == SearchIssues(search.jql, search.batch_size, search.start_at)
       IN  search' =
             IF batch = <<>> THEN [search EXCEPT !.pc = "done", !.calls = @ + 1]
             ELSE [search EXCEPT
                     !.calls = @ + 1,
                     !.all_tickets = @ \o batch,
                     !.start_at = @ + Len(batch),
                     !.pc = IF LastPage(batch, search.batch_size) THEN "done" ELSE "fetch"]
    /\ UNCHANGED <<issues, SearchOthers>>

\* `return all_tickets`
SearchReturn ==
    /\ search.pc = "done"
    /\ search' = SearchIdle
    /\ UNCHANGED <<issues, SearchOthers>>

(***************************************************************************)
(* Claims about the paginated searches                                     *)
(***************************************************************************)

\* the search has left its loop with its result
SearchDone(ops) == search.pc = "done" /\ search.op \in ops

\* the positions of the issues linked to the epic by either field
ChildrenOf(epic_key) ==
    { i \in DOMAIN issues : issues[i].epic_link = epic_key \/ issues[i].parent = epic_key }

\* C17: fetch_epic_children and JiraClient.get_epic_tickets return every
\* ticket linked to the epic through the classic epic-link field or through
\* the parent field, each exactly once, also when a ticket matches both and
\* when the children span more than one page.
C17_EpicChildrenOnce ==
    SearchDone({ "fetch_epic_children", "get_epic_tickets" }) =>
        LET children == ChildrenOf(search.jql.epic_link)
        IN  /\ { search.all_tickets[j] : j \in DOMAIN search.all_tickets }
                 = { issues[i].key : i \in children }
            /\ Len(search.all_tickets) = Cardinality(children)

\* fetch_epic_children returned more children than one page holds: one
\* linked by both fields, one by the epic link only, one by the parent only
C17_Witness ==
    /\ SearchDone({ "fetch_epic_children" })
    /\ Len(search.all_tickets) > DefaultBatchSize
    /\ \E i, j, k \in ChildrenOf(search.jql.epic_link) :
          /\ issues[i].epic_link = issues[i].parent
          /\ issues[j].parent = NoEpic
          /\ issues[k].epic_link = NoEpic

\* C18: when the result set does not change during the call and the remote
\* answers each page request with the matches at start_at .. start_at +
\* batch_size - 1, search_all_tickets and execute_jql_all return all N
\* matching tickets, in the remote's order, each exactly once, for every
\* N >= 0 and batch_size >= 1, N a multiple of batch_size included.
C18_PaginationReturnsAll ==
    SearchDone({ "search_all_tickets", "execute_jql_all" }) =>
        search.all_tickets = [i \in DOMAIN issues |-> issues[i].key]

\* execute_jql_all returned a result of exactly two full pages
C18_Witness ==
    /\ SearchDone({ "execute_jql_all" })
    /\ Len(issues) = 2 * search.batch_size
    /\ Len(search.all_tickets) = Len(issues)
    /\ search.start_at = Len(issues)

\* the number of issues the running search matches
Matches ==
    IF search.jql.kind = "all" THEN Len(issues)
    ELSE Cardinality(ChildrenOf(search.jql.epic_link))

NoArg == "None"
NoUser == <<"None">>

\* `if value:` for an optional text
Given(value) == value \notin { NoArg, "" }
GivenUser(user) == user \notin { NoUser, <<>> }

CurrentUser == <<"c","u","r","r","e","n","t","U","s","e","r","(",")">>

\* what --user may carry
UserArgs == { NoUser, <<"M","e">>, <<"a","n","n">> }

\* the command line of read:project
ProjectArgs ==
    [key : { NoArg, "SR" }, status : { NoArg, "Open" }, type : { NoArg, "Bug" },
     title : { NoArg, "fix" }, include_all : BOOLEAN, all_users : BOOLEAN,
     user : UserArgs]

\* the configured lists of statuses to leave out
ExcludedLists == { <<>>, <<"Done">>, <<"Done", "Closed">> }

\* the defaults section of the configuration as read:project reads it:
\* defaults.project.key, defaults.project.user, defaults.jql.excluded_statuses
ProjectConfigs ==
    [project_key : { NoArg, "OPS" }, project_user : { NoUser, <<>>, <<"b","o","b">> },
     excluded_statuses : ExcludedLists]

\* the defaults section as read:jql reads it: defaults.jql.user and
\* defaults.jql.excluded_statuses
JqlConfigs ==
    [jql_user : { NoUser, <<"b","o","b">> }, excluded_statuses : { <<>>, <<"Done">> }]

\* config.get_default(section, key, default) for a text, and for a user
GetDefault(value, default) == IF value = NoArg THEN default ELSE value
GetDefaultUser(value, default) == IF value = NoUser THEN default ELSE value

\* an exclusion list that --include-all does not switch off
ExcludedStatusesAlways(include_all, configured) == configured

\* `[] if include_all else config.get_default("jql", "excluded_statuses", [])`
ExcludedStatuses(include_all, configured) == IF include_all THEN <<>> ELSE configured

\* the user filter of both commands: none with --all-users, else --user with
\* "me" and "current" (in any case) standing for currentUser(), else the
\* configured default, else currentUser()
AssigneeOf(all_users, user_arg, configured) ==
    LET user == IF GivenUser(user_arg)
                   /\ Lower(user_arg) \in { <<"m","e">>, <<"c","u","r","r","e","n","t">> }
                THEN CurrentUser ELSE user_arg
    IN  IF all_users THEN NoUser
        ELSE IF GivenUser(user) THEN user
        ELSE GetDefaultUser(configured, CurrentUser)

\* one condition of a query: f'{field} {op} "{value}"'
Clause(field, op, value) == [field |-> field, op |-> op, value |-> value, quoted |-> TRUE]

\* 'assignee = currentUser()', the function unquoted, or f'assignee = "{assignee}"'
AssigneeClause(assignee) ==
    [field |-> "assignee", op |-> "=", value |-> assignee, quoted |-> assignee # CurrentUser]

\* f'status NOT IN ({quoted})' with every status quoted, in the list's order
ExclusionClause(statuses) == [field |-> "status", op |-> "NOT IN", statuses |-> statuses]

\* fetch_project_tickets builds " AND ".join(jql_parts) + " ORDER BY created DESC"
ProjectJql(project_key, status, issue_type, summary, excluded_statuses, assignee) ==
    [parts |->
        << Clause("project", "=", project_key) >>
        \o (IF Given(status) THEN << Clause("status", "=", status) >> ELSE <<>>)
        \o (IF Given(issue_type) THEN << Clause("issuetype", "=", issue_type) >> ELSE <<>>)
        \o (IF Given(summary) THEN << Clause("summary", "~", summary) >> ELSE <<>>)
        \o (IF GivenUser(assignee) THEN << AssigneeClause(assignee) >> ELSE <<>>)
        \o (IF excluded_statuses # <<>> THEN << ExclusionClause(excluded_statuses) >> ELSE <<>>),
     order_by |-> "created DESC"]

QueryIdle == [op |-> "idle"]

\* handle_read_project(config, args): without a key and a default key it
\* prints an error and searches nothing, else it searches the project
ReadProject ==
    /\ queryResult = QueryIdle
    /\ \E args \in ProjectArgs, config \in ProjectConfigs :
          LET key == IF Given(args.key) THEN args.key ELSE config.project_key
              excluded_statuses == ExcludedStatuses(args.include_all, config.excluded_statuses)
              assignee == AssigneeOf(args.all_users, args.user, config.project_user)
          IN  queryResult' =
                IF ~Given(key)
                THEN [op |-> "read:project", args |-> args, config |-> config,
                      searched |-> FALSE]
                ELSE [op |-> "read:project", args |-> args, config |-> config,
                      searched |-> TRUE,
                      jql |-> ProjectJql(key, args.status, args.type, args.title,
                                         excluded_statuses, assignee)]
    /\ UNCHANGED <<savedQueries, QueryOthers>>

\* the names of saved queries and the query texts a user types; "mine" is
\* both a name and a text
SavedNames == { "mine", "other" }
QueryTexts == { "status = Open", "labels = api", "mine" }

\* a query text with the conditions appended to it: f"({query}) AND {clause}"
\* for each in turn
UserQuery(text) == [text |-> text, appended |-> <<>>]
AndClause(query, clause) == [query EXCEPT !.appended = Append(@, clause)]

\* the command line of read:jql
JqlArgs ==
    [query : { NoArg } \cup QueryTexts, save : { NoArg } \cup SavedNames,
     include_all : BOOLEAN, all_users : BOOLEAN, user : { NoUser, <<"M","e">> },
     list_saved : BOOLEAN]

\* no saved query of that name, no clause to append
NoQuery == [none |-> TRUE]
NoClause == [none |-> TRUE]

\* config.get_saved_query(name)
GetSavedQuery(name) == IF name \in DOMAIN savedQueries THEN savedQueries[name] ELSE NoQuery

\* config.build_exclusion_clause(): nothing for an empty list
BuildExclusionClause(config) ==
    IF config.excluded_statuses = <<>> THEN NoClause
    ELSE ExclusionClause(config.excluded_statuses)

\* a --save that stores the query as it is executed
QueryToSaveExecuted(query, executed) == executed

\* `config.saved_queries[args.save] = query`, before the clauses are appended
QueryToSave(query, executed) == query

\* handle_read_jql(config, args): --list-saved lists and returns; without a
\* query it prints an error; else the query is the saved query of that name
\* or the text itself, it is stored under --save, and it is executed with the
\* user filter and the exclusion clause appended
ReadJql ==
    /\ queryResult = QueryIdle
    /\ \E args \in JqlArgs, config \in JqlConfigs :
          IF args.list_saved \/ ~Given(args.query)
          THEN /\ queryResult' = [op |-> "read:jql", args |-> args, config |-> config,
                                  searched |-> FALSE]
               /\ savedQueries' = savedQueries
          ELSE LET saved == GetSavedQuery(args.query)
                   query == IF saved # NoQuery THEN saved ELSE UserQuery(args.query)
                   assignee == AssigneeOf(args.all_users, args.user, config.jql_user)
                   filtered == IF GivenUser(assignee)
                               THEN AndClause(query, AssigneeClause(assignee))
                               ELSE query
                   exclusion == BuildExclusionClause(config)
                   executed == IF ~args.include_all /\ exclusion # NoClause
                               THEN AndClause(filtered, exclusion)
                               ELSE filtered
               IN  /\ queryResult' = [op |-> "read:jql", args |-> args, config |-> config,
                                      searched |-> TRUE, jql |-> executed]
                   /\ savedQueries' =
                        IF Given(args.save)
                        THEN [n \in DOMAIN savedQueries \cup { args.save } |->
                                IF n = args.save THEN QueryToSave(query, executed)
                                ELSE savedQueries[n]]
                        ELSE savedQueries
    /\ UNCHANGED QueryOthers

\* the command's process ends; the saved queries stay in the config file
QueryExit ==
    /\ queryResult # QueryIdle
    /\ queryResult' = QueryIdle
    /\ UNCHANGED <<savedQueries, QueryOthers>>

(***************************************************************************)
(* Claims about the query commands                                         *)
(***************************************************************************)

ProjectSearched == queryResult.op = "read:project" /\ queryResult.searched

\* the conditions of the project query on this field with this operator
ClausesOn(field, op) ==
    { i \in DOMAIN queryResult.jql.parts :
        /\ queryResult.jql.parts[i].field = field
        /\ queryResult.jql.parts[i].op = op }

\* the query has one condition `field op value` when wanted, else none
HasExactly(field, op, wanted, value) ==
    IF wanted
    THEN /\ Cardinality(ClausesOn(field, op)) = 1
         /\ \A i \in ClausesOn(field, op) : queryResult.jql.parts[i].value = value
    ELSE ClausesOn(field, op) = {}

\* the exclusion clause names exactly the configured statuses when the list
\* is not empty and --include-all is absent, and is absent otherwise
ExclusionAsConfigured ==
    LET configured == queryResult.config.excluded_statuses
    IN  IF ~queryResult.args.include_all /\ configured # <<>>
        THEN /\ Cardinality(ClausesOn("status", "NOT IN")) = 1
             /\ \A i \in ClausesOn("status", "NOT IN") :
                   queryResult.jql.parts[i].statuses = configured
        ELSE ClausesOn("status", "NOT IN") = {}

\* the status, type and title filters are present exactly when supplied
FiltersAsSupplied ==
    LET args == queryResult.args
    IN  /\ HasExactly("status", "=", Given(args.status), args.status)
        /\ HasExactly("issuetype", "=", Given(args.type), args.type)
        /\ HasExactly("summary", "~", Given(args.title), args.title)

\* C21 as stated: the read:project query has the exclusion clause exactly
\* when the configured list is not empty and --include-all is absent, and
\* the status, type, title and assignee filters exactly when supplied, the
\* assignee filter being absent with --all-users.
C21_FiltersExactlyWhenSupplied ==
    ProjectSearched =>
        /\ ExclusionAsConfigured
        /\ FiltersAsSupplied
        /\ ClausesOn("assignee", "=") # {} <=>
              (GivenUser(queryResult.args.user) /\ ~queryResult.args.all_users)

\* the user the query is filtered by when --all-users is absent
ExpectedAssignee ==
    LET args == queryResult.args
        default == queryResult.config.project_user
    IN  IF args.user = <<"M","e">> THEN CurrentUser
        ELSE IF args.user # NoUser THEN args.user
        ELSE IF default = NoUser THEN CurrentUser
        ELSE default

\* C21 amended: exclusion clause and status, type and title filters as
\* stated; the assignee filter is absent with --all-users and otherwise
\* names --user ("me" standing for currentUser()), else the configured
\* default user, else currentUser(), and is absent when that user is empty.
C21_FiltersWithDefaultAssignee ==
    ProjectSearched =>
        /\ ExclusionAsConfigured
        /\ FiltersAsSupplied
        /\ HasExactly("assignee", "=",
                      ~queryResult.args.all_users /\ ExpectedAssignee # <<>>,
                      ExpectedAssignee)

\* a project query without --user and --all-users was filtered by
\* currentUser() and excluded the two configured statuses
C21_Witness ==
    /\ ProjectSearched
    /\ queryResult.args.user = NoUser
    /\ ~queryResult.args.all_users
    /\ ~queryResult.args.include_all
    /\ queryResult.config.project_user = NoUser
    /\ queryResult.config.excluded_statuses = <<"Done", "Closed">>
    /\ \E i \in ClausesOn("assignee", "=") : queryResult.jql.parts[i].value = CurrentUser
    /\ ClausesOn("status", "NOT IN") # {}

JqlSearched == queryResult.op = "read:jql" /\ queryResult.searched

\* C24: every saved query is a query text as a user supplied it, without an
\* appended assignee filter or exclusion clause; a read:jql with --save
\* stores under that name the text supplied or the saved query it named, and
\* leaves the other saved queries alone; a read:jql without --save, and one
\* that lists or fails, leaves every saved query unchanged.
C24_SavedQueryIsUserText ==
    /\ [](\A n \in DOMAIN savedQueries :
            /\ savedQueries[n].appended = <<>>
            /\ savedQueries[n].text \in QueryTexts)
    /\ [][(queryResult = QueryIdle /\ queryResult'.op = "read:jql") =>
            LET args == queryResult'.args
            IN  IF queryResult'.searched /\ args.save # NoArg
                THEN /\ DOMAIN savedQueries' = DOMAIN savedQueries \cup { args.save }
                     /\ \A n \in DOMAIN savedQueries \ { args.save } :
                           savedQueries'[n] = savedQueries[n]
                     /\ savedQueries'[args.save] =
                          (IF args.query \in DOMAIN savedQueries
                           THEN savedQueries[args.query]
                           ELSE [text |-> args.query, appended |-> <<>>])
                ELSE savedQueries' = savedQueries
         ]_vars

\* the saved query "mine" was executed with both clauses appended and saved
\* again under its own name
C24_Witness ==
    /\ JqlSearched
    /\ queryResult.args.query = "mine"
    /\ queryResult.args.save = "mine"
    /\ Len(queryResult.jql.appended) = 2
    /\ "mine" \in DOMAIN savedQueries
    /\ savedQueries["mine"] = [text |-> "status = Open", appended |-> <<>>]

(***************************************************************************)
(* Ticket write commands: add:label and the two ways to link tickets       *)
(***************************************************************************)

\* the labels a command may add
Labels == { "api", "ui", "db" }

\* the add:label commands that may run at the same time
Procs == { 1, 2 }

LabelIdle == [pc |-> "idle"]

\* `if args.label not in current:`
NeedsUpdate(label, current) == \A i \in DOMAIN current : current[i] # label

\* handle_add_label, first half: `issue = conn.client.issue(args.key)` and
\* `current = list(issue.fields.labels) if issue.fields.labels else []`
AddLabelRead(p) ==
    /\ labelProcs[p] = LabelIdle
    /\ \E label \in Labels :
          labelProcs' = [labelProcs EXCEPT ![p] =
                            [pc |-> "read", label |-> label, current |-> labels,
                             before |-> labels, updated |-> FALSE]]
    /\ UNCHANGED <<labels, linkResult, WriteOthers>>

\* handle_add_label, second half: append the label and send the whole list
\* with issue.update(fields={"labels": current}) when the label is new, then
\* print the result
AddLabelWrite(p) ==
    /\ labelProcs[p].pc = "read"
    /\ LET label == labelProcs[p].label
           current == labelProcs[p].current
       IN  IF NeedsUpdate(label, current)
           THEN /\ labels' = Append(current, label)
                /\ labelProcs' = [labelProcs EXCEPT ![p].pc = "done",
                                                    ![p].current = Append(current, label),
                                                    ![p].updated = TRUE]
           ELSE /\ labels' = labels
                /\ labelProcs' = [labelProcs EXCEPT ![p].pc = "done"]
    /\ UNCHANGED <<linkResult, WriteOthers>>

\* the command's process ends
AddLabelExit(p) ==
    /\ labelProcs[p].pc = "done"
    /\ labelProcs' = [labelProcs EXCEPT ![p] = LabelIdle]
    /\ UNCHANGED <<labels, linkResult, WriteOthers>>

LinkKeys == { "A-1", "A-2" }
LinkTypes == { "Relates", "Blocks" }

\* client.create_issue_link(type, inwardIssue, outwardIssue)
LinkRequest(type, inwardIssue, outwardIssue) ==
    [type |-> type, inwardIssue |-> inwardIssue, outwardIssue |-> outwardIssue]

\* JiraClient.link_tickets: inwardIssue=to_key, outwardIssue=from_key
LinkTicketsRequest(from_key, to_key, link_type) == LinkRequest(link_type, to_key, from_key)

\* handle_add_link: inwardIssue=args.from_key, outwardIssue=args.to_key
AddLinkRequest(from_key, to_key, link_type) == LinkRequest(link_type, from_key, to_key)

LinkIdle == [op |-> "idle"]

\* JiraClient.link_tickets(from_key, to_key, link_type)
LinkTickets ==
    /\ linkResult = LinkIdle
    /\ \E from_key \in LinkKeys, to_key \in LinkKeys, link_type \in LinkTypes :
          linkResult' = [op |-> "link_tickets", from_key |-> from_key, to_key |-> to_key,
                         link_type |-> link_type,
                         request |-> LinkTicketsRequest(from_key, to_key, link_type)]
    /\ UNCHANGED <<labels, labelProcs, WriteOthers>>

\* handle_add_link(config, args), the add:link command
HandleAddLink ==
    /\ linkResult = LinkIdle
    /\ \E from_key \in LinkKeys, to_key \in LinkKeys, link_type \in LinkTypes :
          linkResult' = [op |-> "add:link", from_key |-> from_key, to_key |-> to_key,
                         link_type |-> link_type,
                         request |-> AddLinkRequest(from_key, to_key, link_type)]
    /\ UNCHANGED <<labels, labelProcs, WriteOthers>>

\* the caller is done with the link
LinkReturn ==
    /\ linkResult # LinkIdle
    /\ linkResult' = LinkIdle
    /\ UNCHANGED <<labels, labelProcs, WriteOthers>>

(***************************************************************************)
(* Claims about the ticket write commands                                  *)
(***************************************************************************)

LabelSet(list) == { list[i] : i \in DOMAIN list }

\* C26: add:label never loses labels: when two add:label commands with
\* different labels have both completed, the remote labels contain both new
\* labels and every label either command found beforehand; and a command
\* whose label was already present sent no update.
C26_NoLabelLost ==
    /\ ( /\ \A p \in Procs : labelProcs[p].pc = "done"
         /\ labelProcs[1].label # labelProcs[2].label )
       => \A p \in Procs :
             /\ labelProcs[p].label \in LabelSet(labels)
             /\ LabelSet(labelProcs[p].before) \subseteq LabelSet(labels)
    /\ \A p \in Procs :
          (labelProcs[p].pc = "done" /\ labelProcs[p].label \in LabelSet(labelProcs[p].before))
             => ~labelProcs[p].updated

\* C27: the two link-creation paths agree: whichever path ran, the request
\* it sent for (from_key, to_key, link_type) has the type, the inward issue
\* and the outward issue that the other path sends for the same arguments.
C27_LinkPathsAgree ==
    /\ linkResult.op = "link_tickets" =>
          linkResult.request =
             [type |-> linkResult.link_type, inwardIssue |-> linkResult.from_key,
              outwardIssue |-> linkResult.to_key]
    /\ linkResult.op = "add:link" =>
          linkResult.request =
             [type |-> linkResult.link_type, inwardIssue |-> linkResult.to_key,
              outwardIssue |-> linkResult.from_key]

(***************************************************************************)
(* Saving and reloading the configuration                                  *)
(***************************************************************************)

\* a pathlib.Path: absolute or relative, and its components
PathValue(absolute, parts) == [absolute |-> absolute, parts |-> parts]

\* the values of Config.vault_path: the working directory, the relative
\* paths Path("") and "vault/notes", and "/srv/vault"
VaultPaths ==
    { PathValue(TRUE, << <<"h","o","m","e">>, <<"a","n","n">> >>),
      PathValue(FALSE, <<>>),
      PathValue(FALSE, << <<"v","a","u","l","t">>, <<"n","o","t","e","s">> >>),
      PathValue(TRUE, << <<"s","r","v">>, <<"v","a","u","l","t">> >>) }

\* str(path): "." for the empty relative path
StrOfPath(path) ==
    IF ~path.absolute /\ path.parts = <<>> THEN <<".">>
    ELSE (IF path.absolute THEN <<"/">> ELSE <<>>) \o Join(path.parts, <<"/">>)

\* the components of a path text from position i, the component read so far
\* in part; empty components and "." are dropped
RECURSIVE SplitPath(_, _, _)
SplitPath(text, i, part) ==
    LET kept == IF part \in { <<>>, <<".">> } THEN <<>> ELSE << part >>
    IN  IF i > Len(text) THEN kept
        ELSE IF text[i] = "/" THEN kept \o SplitPath(text, i + 1, <<>>)
        ELSE SplitPath(text, i + 1, Append(part, text[i]))

\* Path(text)
PathOfStr(text) ==
    PathValue(text # <<>> /\ text[1] = "/", SplitPath(text, 1, <<>>))

\* the tag tables: as shipped, customised, empty
TagTables ==
    { [status_tags |-> DefaultStatusTags, priority_tags |-> DefaultPriorityTags,
       type_tags |-> DefaultTypeTags],
      [status_tags |-> [t \in { TextInQA } |-> <<"q","a">>],
       priority_tags |-> DefaultPriorityTags, type_tags |-> NoTags],
      [status_tags |-> NoTags, priority_tags |-> NoTags, type_tags |-> NoTags] }

\* the Config objects that are saved: connection settings all empty or all
\* set, with and without a token
SavedConfigs ==
    { [jira_url |-> remote_settings[1], jira_email |-> remote_settings[2],
       jira_api_token |-> token, jira_cloud_id |-> remote_settings[3],
       vault_path |-> path, tickets_folder |-> folder,
       include_comments |-> flags[1], include_attachments |-> flags[2],
       include_links |-> flags[3], max_description_length |-> length,
       status_tags |-> tables.status_tags, priority_tags |-> tables.priority_tags,
       type_tags |-> tables.type_tags] :
        remote_settings \in { <<"", "", "">>, <<"https://j.example", "ann@example", "cloud-1">> },
        token \in { "", "token-1" },
        path \in VaultPaths, folder \in { "tickets", "jira" },
        flags \in { <<TRUE, TRUE, TRUE>>, <<FALSE, TRUE, FALSE>>,
                    <<TRUE, FALSE, TRUE>>, <<FALSE, FALSE, FALSE>> },
        length \in { 0, 500 }, tables \in TagTables }

\* Config(): every field at its default; the working directory is /home/ann
NewConfig ==
    [jira_url |-> "", jira_email |-> "", jira_api_token |-> "", jira_cloud_id |-> "",
     vault_path |-> PathValue(TRUE, << <<"h","o","m","e">>, <<"a","n","n">> >>),
     tickets_folder |-> "tickets", include_comments |-> TRUE,
     include_attachments |-> TRUE, include_links |-> TRUE, max_description_length |-> 0,
     status_tags |-> DefaultStatusTags, priority_tags |-> DefaultPriorityTags,
     type_tags |-> DefaultTypeTags]

\* a file that also holds the token
SaveDataWithToken(config) ==
    [jira_url |-> config.jira_url, jira_email |-> config.jira_email,
     jira_api_token |-> config.jira_api_token,
     jira_cloud_id |-> config.jira_cloud_id, vault_path |-> StrOfPath(config.vault_path),
     tickets_folder |-> config.tickets_folder, include_comments |-> config.include_comments,
     include_attachments |-> config.include_attachments,
     include_links |-> config.include_links, status_tags |-> config.status_tags,
     priority_tags |-> config.priority_tags, type_tags |-> config.type_tags]

\* the JSON object Config.save writes: every setting but the API token and
\* max_description_length, vault_path as text
SaveData(config) ==
    [jira_url |-> config.jira_url, jira_email |-> config.jira_email,
     jira_cloud_id |-> config.jira_cloud_id, vault_path |-> StrOfPath(config.vault_path),
     tickets_folder |-> config.tickets_folder, include_comments |-> config.include_comments,
     include_attachments |-> config.include_attachments,
     include_links |-> config.include_links, status_tags |-> config.status_tags,
     priority_tags |-> config.priority_tags, type_tags |-> config.type_tags]

\* cls(**data): the fields the file names, vault_path turned into a Path,
\* the others at their defaults
FromFileData(data) ==
    [name \in DOMAIN NewConfig |->
        IF name \notin DOMAIN data THEN NewConfig[name]
        ELSE IF name = "vault_path" THEN PathOfStr(data[name])
        ELSE data[name]]

NoFile == [missing |-> TRUE]
NoConfig == [none |-> TRUE]
SaveIdle == [op |-> "idle"]

\* config.save(config_path)
SaveConfig ==
    /\ saveResult = SaveIdle
    /\ \E config \in SavedConfigs :
          /\ configFile' = SaveData(config)
          /\ saveResult' = [op |-> "save", config |-> config]
    /\ UNCHANGED SaveOthers

\* Config.from_file(config_path), by a caller that has just saved its config
\* or by a new process; FileNotFoundError without a file
ConfigFromFile ==
    /\ saveResult.op \in { "idle", "save" }
    /\ saveResult' =
         [op |-> "from_file",
          config |-> IF saveResult.op = "save" THEN saveResult.config ELSE NoConfig,
          raised |-> configFile = NoFile,
          loaded |-> IF configFile = NoFile THEN NoConfig ELSE FromFileData(configFile)]
    /\ UNCHANGED <<configFile, SaveOthers>>

\* the caller is done
SaveReturn ==
    /\ saveResult # SaveIdle
    /\ saveResult' = SaveIdle
    /\ UNCHANGED <<configFile, SaveOthers>>

(***************************************************************************)
(* Claims about saving the configuration                                   *)
(***************************************************************************)

\* the settings that a save and a load must preserve
RoundTripSettings ==
    { "jira_url", "jira_email", "jira_cloud_id", "vault_path", "tickets_folder",
      "include_comments", "include_attachments", "include_links",
      "status_tags", "priority_tags", "type_tags" }

\* C29: Config.save never writes the API token: a saved file has no
\* jira_api_token entry, and Config.from_file of the file just saved gives a
\* Config equal to the saved one in jira_url, jira_email, jira_cloud_id,
\* vault_path, tickets_folder, the three include flags and the three tag
\* tables, with an empty jira_api_token.
C29_SaveOmitsTokenAndRoundTrips ==
    /\ configFile # NoFile => "jira_api_token" \notin DOMAIN configFile
    /\ (saveResult.op = "from_file" /\ saveResult.config # NoConfig) =>
          /\ ~saveResult.raised
          /\ \A name \in RoundTripSettings :
                saveResult.loaded[name] = saveResult.config[name]
          /\ saveResult.loaded.jira_api_token = ""

\* a Config with a token, the relative path Path("") and changed flags and
\* tables was saved and loaded again
C29_Witness ==
    /\ saveResult.op = "from_file"
    /\ saveResult.config # NoConfig
    /\ saveResult.config.jira_api_token = "token-1"
    /\ saveResult.config.vault_path = PathValue(FALSE, <<>>)
    /\ ~saveResult.config.include_links
    /\ saveResult.config.type_tags = NoTags
    /\ saveResult.loaded.vault_path = PathValue(FALSE, <<>>)
    /\ configFile.vault_path = <<".">>

(***************************************************************************)
(* Specifications                                                          *)
(***************************************************************************)

StatusAtRest ==
    /\ transitions = <<>>
    /\ sent = <<>>
    /\ statusResult = StatusIdle

SyncAtRest ==
    /\ remote = [k \in Keys |-> Missing]
    /\ vault = << >>
    /\ syncResult = SyncIdle

ClientAtRest ==
    /\ connection = NoConnection
    /\ jiraClient = NoJiraClient
    /\ clientResult = ClientIdle

CliAtRest ==
    /\ layers = NoLayers
    /\ cliResult = CliIdle

NormAtRest ==
    /\ rawIssue = [f \in RawFields |-> "value"]
    /\ rawLinks = DefaultLinks
    /\ ticketResult = NormIdle

FormatAtRest == formatResult = FormatIdle

SearchAtRest ==
    /\ issues = <<>>
    /\ search = SearchIdle

QueryAtRest ==
    /\ savedQueries = << >>
    /\ queryResult = QueryIdle

WriteAtRest ==
    /\ labels = <<>>
    /\ labelProcs = [p \in Procs |-> LabelIdle]
    /\ linkResult = LinkIdle

SaveAtRest ==
    /\ configFile = NoFile
    /\ saveResult = SaveIdle

InitStatus ==
    /\ transitions \in TransitionLists
    /\ sent = <<>>
    /\ statusResult = StatusIdle
    /\ SyncAtRest
    /\ ClientAtRest
    /\ CliAtRest
    /\ NormAtRest
    /\ FormatAtRest
    /\ SearchAtRest
    /\ QueryAtRest
    /\ WriteAtRest
    /\ SaveAtRest

NextStatus ==
    \/ \E status \in Targets : UpdateStatus(status)
    \/ \E status \in Targets : HandleSetStatus(status)
    \/ StatusExit

SpecStatus == InitStatus /\ [][NextStatus]_vars

InitSync ==
    /\ remote \in { r \in [Keys -> UNION { TicketsOf(k) : k \in Keys }] :
                       \A k \in Keys : r[k] \in TicketsOf(k) }
    /\ vault = << >>
    /\ syncResult = SyncIdle
    /\ StatusAtRest
    /\ ClientAtRest
    /\ CliAtRest
    /\ NormAtRest
    /\ FormatAtRest
    /\ SearchAtRest
    /\ QueryAtRest
    /\ WriteAtRest
    /\ SaveAtRest

NextSync ==
    \/ SyncTicket
    \/ SyncTickets
    \/ DropResult
    \/ \E key \in Keys : RemoteEdit(key)

SpecSync == InitSync /\ [][NextSync]_vars

InitClient ==
    /\ ClientAtRest
    /\ StatusAtRest
    /\ SyncAtRest
    /\ CliAtRest
    /\ NormAtRest
    /\ FormatAtRest
    /\ SearchAtRest
    /\ QueryAtRest
    /\ WriteAtRest
    /\ SaveAtRest

NextClient ==
    \/ \E config \in Credentials : GetClient(config)
    \/ ResetConnection
    \/ \E config \in Credentials : NewJiraClient(config)
    \/ Connect
    \/ ClientReturn

SpecClient == InitClient /\ [][NextClient]_vars

InitCli ==
    /\ layers \in [env : ValuesOf("env"), explicit : ConfigFiles("file"),
                   project : ConfigFiles("project"), user : ConfigFiles("user")]
    /\ cliResult = CliIdle
    /\ StatusAtRest
    /\ SyncAtRest
    /\ ClientAtRest
    /\ NormAtRest
    /\ FormatAtRest
    /\ SearchAtRest
    /\ QueryAtRest
    /\ WriteAtRest
    /\ SaveAtRest

NextCli ==
    \/ \E given \in BOOLEAN : LoadConfig(given)
    \/ \E cmd \in Commands, given \in BOOLEAN, answer \in RemoteAnswers, fsFails \in BOOLEAN :
          Main(cmd, given, answer, fsFails)
    \/ \E cmd \in Commands, loadRaises \in BOOLEAN, handlerRaises \in BOOLEAN :
          MainLegacy(cmd, loadRaises, handlerRaises)
    \/ CliExit

SpecCli == InitCli /\ [][NextCli]_vars

InitNorm ==
    /\ rawIssue \in RawIssues
    /\ rawLinks \in RawLinkLists
    /\ \/ rawLinks = DefaultLinks
       \/ \A name \in OptionalFields \ { "issuelinks" } : rawIssue[name] = "value"
    /\ ticketResult = NormIdle
    /\ StatusAtRest
    /\ SyncAtRest
    /\ ClientAtRest
    /\ CliAtRest
    /\ FormatAtRest
    /\ SearchAtRest
    /\ QueryAtRest
    /\ WriteAtRest
    /\ SaveAtRest

NextNorm ==
    \/ ClientIssueToTicket
    \/ QueryIssueToTicket

SpecNorm == InitNorm /\ [][NextNorm]_vars

InitFormat ==
    /\ formatResult = FormatIdle
    /\ StatusAtRest
    /\ SyncAtRest
    /\ ClientAtRest
    /\ CliAtRest
    /\ NormAtRest
    /\ SearchAtRest
    /\ QueryAtRest
    /\ WriteAtRest
    /\ SaveAtRest

NextFormat ==
    \/ FormatTicketCall
    \/ FormatTicketListCall
    \/ FormatReturn

SpecFormat == InitFormat /\ [][NextFormat]_vars

InitSearch ==
    /\ issues \in IssueLists
    /\ search = SearchIdle
    /\ StatusAtRest
    /\ SyncAtRest
    /\ ClientAtRest
    /\ CliAtRest
    /\ NormAtRest
    /\ FormatAtRest
    /\ QueryAtRest
    /\ WriteAtRest
    /\ SaveAtRest

NextSearch ==
    \/ SearchAllTickets
    \/ ExecuteJqlAll
    \/ GetEpicTickets
    \/ FetchEpicChildren
    \/ FetchPage
    \/ SearchReturn

SpecSearch == InitSearch /\ [][NextSearch]_vars

\* the remotes of the pagination runs: each issue is a child of EPIC-1 by its
\* epic link, a child by its parent, or no child at all
PagingIssueLists ==
    { list \in IssueLists :
        \A i \in 1..Len(list) :
            <<list[i].epic_link, list[i].parent>> \in
                { <<"EPIC-1", NoEpic>>, <<NoEpic, "EPIC-1">>, <<NoEpic, NoEpic>> } }

InitSearchFair ==
    /\ issues \in PagingIssueLists
    /\ search = SearchIdle
    /\ StatusAtRest
    /\ SyncAtRest
    /\ ClientAtRest
    /\ CliAtRest
    /\ NormAtRest
    /\ FormatAtRest
    /\ QueryAtRest
    /\ WriteAtRest
    /\ SaveAtRest

\* a search that was started goes on: the loop is sequential code
SpecSearchFair == InitSearchFair /\ [][NextSearch]_vars /\ WF_vars(FetchPage)

InitQuery ==
    /\ savedQueries \in { << >>, [n \in { "mine" } |-> UserQuery("status = Open")] }
    /\ queryResult = QueryIdle
    /\ StatusAtRest
    /\ SyncAtRest
    /\ ClientAtRest
    /\ CliAtRest
    /\ NormAtRest
    /\ FormatAtRest
    /\ SearchAtRest
    /\ WriteAtRest
    /\ SaveAtRest

NextQuery ==
    \/ ReadProject
    \/ ReadJql
    \/ QueryExit

SpecQuery == InitQuery /\ [][NextQuery]_vars

InitWrite ==
    /\ labels \in { <<>>, <<"api">>, <<"ui", "api">> }
    /\ labelProcs = [p \in Procs |-> LabelIdle]
    /\ linkResult = LinkIdle
    /\ StatusAtRest
    /\ SyncAtRest
    /\ ClientAtRest
    /\ CliAtRest
    /\ NormAtRest
    /\ FormatAtRest
    /\ SearchAtRest
    /\ QueryAtRest
    /\ SaveAtRest

NextWrite ==
    \/ \E p \in Procs : AddLabelRead(p)
    \/ \E p \in Procs : AddLabelWrite(p)
    \/ \E p \in Procs : AddLabelExit(p)
    \/ LinkTickets
    \/ HandleAddLink
    \/ LinkReturn

SpecWrite == InitWrite /\ [][NextWrite]_vars

InitSave ==
    /\ configFile = NoFile
    /\ saveResult = SaveIdle
    /\ StatusAtRest
    /\ SyncAtRest
    /\ ClientAtRest
    /\ CliAtRest
    /\ NormAtRest
    /\ FormatAtRest
    /\ SearchAtRest
    /\ QueryAtRest
    /\ WriteAtRest

NextSave ==
    \/ SaveConfig
    \/ ConfigFromFile
    \/ SaveReturn

SpecSave == InitSave /\ [][NextSave]_vars

=========================================================================
